---- MODULE Spec2Model ----
(***************************************************************************)
(* A model of the StatusNotifierWatcher / StatusNotifierHost registry of   *)
(* package systray: the Watcher and the Host of src/unnamed/part_000, the  *)
(* session bus they talk to (name ownership, match rules, signal routing,  *)
(* exported properties) and the item probe of src/menu.go.                 *)
(***************************************************************************)
EXTENDS Integers, Sequences, FiniteSets, Bags, TLC

\* ------------------------------------------------------------------ bounds

\* Longest items list the model lets the watcher build.
MaxItems == 2

\* Most signals the model lets wait in one delivery channel.
MaxChan == 2

\* Most copies of one match rule the model lets the connection hold.
MaxRules == 3

\* Most signals the model lets the Watcher emit in one run.
MaxEmitted == 3

\* Most signals buffered in the channel of the Item built on its own.
MaxItemChan == 1

\* Most invocations of Item.onUpdate in one run.
MaxUpdates == 2

\* The versions the remote object's property values go through.
MaxVersion == 2

\* The pixmaps of one icon property.
MaxPixmaps == 3

\* The nodes of one layout reply, and its revisions.
MaxNodes == 4
MaxRevision == 2

\* The lengths of the unique names and of the object paths (after their
\* first slash) identifiers are built from.
MaxNameLen == 3
MaxPathLen == 2

\* The largest integer a toggle-state property holds.
MaxToggle == 2

\* ------------------------------------------------------- program constants

StatusNotifierWatcherInterface == "org.kde.StatusNotifierWatcher"
StatusNotifierItemInterface == "org.kde.StatusNotifierItem"
StatusNotifierItemPath == "/StatusNotifierItem"
DBusInterface == "org.freedesktop.DBus"
MenuInterface == "com.canonical.dbusmenu"

\* ------------------------------------------------------------- the inputs

\* Unique names of the clients on the bus; the first is a string prefix of
\* the second.
UniqueNames == {":1.1", ":1.10"}

\* The name NewHost builds for the embedder's own Host.
HostId == "42"

\* Object paths a client may register.
ObjectPaths == {"/StatusNotifierItem", "/a"}

\* The objects that implement org.kde.StatusNotifierItem while their owner is
\* on the bus.
SniObjects == {<<":1.1", "/StatusNotifierItem">>, <<":1.1", "/a">>,
               <<":1.10", "/StatusNotifierItem">>}

\* The name arguments of RegisterStatusNotifierItem: unique names (bare mode),
\* object paths (path mode) and a full identifier.
ItemNameInputs == UniqueNames \cup ObjectPaths \cup {":1.1/StatusNotifierItem"}

\* ------------------------------------------------------------ the state

VARIABLES
    w_closed,     \* Watcher.closed
    w_hosts,      \* Watcher.hosts
    w_items,      \* Watcher.items
    w_mu,         \* Watcher.mu: "free", or the handler that holds it
    w_arg,        \* the name argument of the handler that holds Watcher.mu
    w_signals,    \* the signals buffered in Watcher.signals
    w_chan,       \* Watcher.signals is "open" or "closed"
    w_subscribed, \* conn.Signal(w.signals) is in force
    w_consumer,   \* the consumer goroutine of Watcher.subscribe
    busName,      \* the owner of org.kde.StatusNotifierWatcher: "", "self", "other"
    w_exported,   \* conn.Export(w, ...) has succeeded
    props,        \* the property map of the last prop.Export, <<>> before the first
    matches,      \* the bag of match rules the connection holds at the bus daemon
    emitted,      \* the bag of signals conn.Emit has sent
    vanished,     \* the unique names that have left the bus
    h_closed,     \* Host.closed
    h_owned,      \* the connection owns the Host's name
    h_items,      \* Host.items: the Items of the map, each under its unique name
    h_callbacks,  \* Host.onRegistered and Host.onUnregistered: "set" or "nil"
    h_signals,    \* the signals buffered in Host.signals
    h_chan,       \* Host.signals is "open" or "closed"
    h_subscribed, \* conn.Signal(h.signals) is in force
    h_consumer,   \* the consumer goroutine of Host.subscribe
    h_mu,         \* Host.mu: "free", or the step of the method that holds it
    h_arg,        \* the unique name the handler that holds Host.mu works on
    h_fired,      \* the bag of callback invocations the Host has made
    i_state,      \* the Item built on its own: "none", "open" or "closed"
    i_cache,      \* the Item's exported fields
    i_signals,    \* the signals buffered in Item.signals
    i_chan,       \* Item.signals is "open" or "closed"
    i_subscribed, \* conn.Signal(item.signals) is in force
    i_consumer,   \* the consumer goroutine of Item.subscribe
    i_updates,    \* the number of invocations of Item.onUpdate
    r_version,    \* the version of the remote object's property values
    panicked,     \* the process has panicked
    p_value,      \* the property value last handed to NewIconSetFromDBusProperty
    p_iconset,    \* what that call returned
    l_reply,      \* the reply last received by Menu.GetLayout
    l_result,     \* what that call returned
    n_parts,      \* the unique name and object path an identifier is built from
    n_result,     \* what uniqueNameAndPathFromItemName returned for it
    t_node,       \* the LayoutNode whose ToggleState is asked
    t_state,      \* what that call returned
    m_state,      \* the Menu last built for the standalone Item: "none" or "open"
    m_menu        \* the Version and Status of that Menu

wvars == <<w_closed, w_hosts, w_items, w_mu, w_arg, w_signals, w_chan,
           w_subscribed, w_consumer>>
busvars == <<busName, w_exported, props, matches, emitted, vanished>>
hvars == <<h_closed, h_owned, h_items, h_callbacks, h_signals, h_chan,
           h_subscribed, h_consumer, h_mu, h_arg, h_fired>>
ivars == <<i_state, i_cache, i_signals, i_chan, i_subscribed, i_consumer,
           i_updates, r_version>>
fvars == <<p_value, p_iconset, l_reply, l_result>>
gvars == <<n_parts, n_result, t_node, t_state>>
mvars == <<m_state, m_menu>>
ovars == <<fvars, gvars, mvars>>
vars == <<wvars, busvars, hvars, ivars, panicked, ovars>>

\* ----------------------------------------------------------- strings

\* strings.HasPrefix
HasPrefix(s, prefix) ==
    /\ Len(prefix) <= Len(s)
    /\ SubSeq(s, 1, Len(prefix)) = prefix

\* slices.Contains
Contains(seq, x) == \E i \in 1..Len(seq) : seq[i] = x

\* append(s[:i], s[i+1:]...) with the 1-based index i
RemoveAt(seq, i) == SubSeq(seq, 1, i - 1) \o SubSeq(seq, i + 1, Len(seq))

\* The positions of "/" in s.
SlashPositions(s) == {i \in 1..Len(s) : SubSeq(s, i, i) = "/"}

Min(S) == CHOOSE x \in S : \A y \in S : x <= y
Max(S) == CHOOSE x \in S : \A y \in S : x >= y

\* A parser that cuts at the last "/".
uniqueNameAndPathFromItemName_LastSlash(itemName) ==
    IF SlashPositions(itemName) = {}
    THEN <<itemName, StatusNotifierItemPath>>
    ELSE LET i == Max(SlashPositions(itemName))
         IN  <<SubSeq(itemName, 1, i - 1), SubSeq(itemName, i, Len(itemName))>>

\* uniqueNameAndPathFromItemName: strings.Cut at the first "/", the slash
\* put back in front of the path; without a "/" the default path.
uniqueNameAndPathFromItemName(itemName) ==
    IF SlashPositions(itemName) = {}
    THEN <<itemName, StatusNotifierItemPath>>
    ELSE LET i == Min(SlashPositions(itemName))
         IN  <<SubSeq(itemName, 1, i - 1), SubSeq(itemName, i, Len(itemName))>>

\* ------------------------------------------------------------ the session bus

\* The unique name of the connection the Watcher and the Host share.
ConnName == ":1.0"

\* A match option that was not given.
AnyValue == "<any>"

\* The rule of AddMatchSignal(WithMatchInterface("org.freedesktop.DBus"),
\* WithMatchSender("org.freedesktop.DBus"), WithMatchMember("NameOwnerChanged"),
\* WithMatchArg(0, name)).
NameOwnerChangedRule(name) ==
    [interface |-> DBusInterface, sender |-> DBusInterface,
     member |-> "NameOwnerChanged", arg0 |-> name]

\* The six change signals of an item.
ItemSignalMembers ==
    {"NewTitle", "NewToolTip", "NewStatus", "NewIcon", "NewOverlayIcon",
     "NewAttentionIcon"}

\* The rules Item.subscribe adds and Item.close removes.
ItemRules(uniqueName) ==
    SetToBag({[interface |-> StatusNotifierItemInterface, sender |-> uniqueName,
               member |-> m, arg0 |-> AnyValue] : m \in ItemSignalMembers})

\* A signal as the connection sees it (dbus.Signal: Sender, Name = Interface.Member, Body).
Signal(interface, member, sender, body) ==
    [Interface |-> interface, Member |-> member, Sender |-> sender, Body |-> body]

NameOwnerChanged(name, oldOwner, newOwner) ==
    Signal(DBusInterface, "NameOwnerChanged", DBusInterface, <<name, oldOwner, newOwner>>)

\* The signals the Watcher emits.
WatcherSignal(member, arg) ==
    Signal(StatusNotifierWatcherInterface, member, ConnName, <<arg>>)

\* The bus daemon's test of one rule against one signal.
RuleMatches(rule, sig) ==
    /\ rule.interface = sig.Interface
    /\ rule.member = sig.Member
    /\ rule.sender \in {AnyValue, sig.Sender}
    /\ \/ rule.arg0 = AnyValue
       \/ Len(sig.Body) >= 1 /\ sig.Body[1] = rule.arg0

\* The daemon sends a signal to the connection when one of its rules matches.
Routed(rules, sig) == \E r \in BagToSet(rules) : RuleMatches(r, sig)

\* conn.AddMatchSignal and conn.RemoveMatchSignal: the daemon keeps one entry
\* per AddMatch and drops one per RemoveMatch (none when there is none).
AddMatchSignal(rules, rule) == rules (+) SetToBag({rule})
RemoveMatchSignal(rules, rule) == rules (-) SetToBag({rule})

\* The connection hands every signal it receives to every channel registered
\* with conn.Signal.
Deliver(channel, registered, rules, sig) ==
    IF registered /\ Routed(rules, sig) THEN Append(channel, sig) ELSE channel

\* conn.Emit
Emit(sent, sig) == sent (+) SetToBag({sig})

\* The runs the model follows: no rule held more than MaxRules times, no
\* more than MaxEmitted signals emitted.
RulesBounded(rules) == \A r \in BagToSet(rules) : CopiesIn(r, rules) <= MaxRules
EmitBounded(sent) == BagCardinality(sent) <= MaxEmitted

\* The object answers Properties.Get(org.kde.StatusNotifierItem, Title).
Answers(uniqueName, objectPath) ==
    /\ uniqueName \notin vanished
    /\ <<uniqueName, objectPath>> \in SniObjects

\* NewItemWithObjectPath without the probe: an Item is built whatever the
\* object answers.
NewItemWithObjectPath_Unprobed(uniqueName, objectPath) == {TRUE}

\* NewItemWithObjectPath: the outcomes of the Title probe (TRUE: an Item was
\* built and subscribed). A call to an object that answers may still fail in
\* transport.
NewItemWithObjectPath(uniqueName, objectPath) ==
    IF Answers(uniqueName, objectPath) THEN {TRUE, FALSE} ELSE {FALSE}

\* ------------------------------------------------------------ the Watcher

\* The map Watcher.exportProperties hands to prop.Export.
exportProperties(items, hosts) ==
    <<[RegisteredStatusNotifierItems |-> items,
       IsStatusNotifierHostRegistered |-> Len(hosts) > 0,
       ProtocolVersion |-> 1]>>

\* The resolution with the path argument dropped: the sender's default object.
ResolveItem_DefaultPath(name, sender) ==
    IF HasPrefix(name, "/")
    THEN <<sender, StatusNotifierItemPath>>
    ELSE <<name, StatusNotifierItemPath>>

\* The (uniqueName, objectPath) RegisterStatusNotifierItem resolves its
\* arguments to.
ResolveItem(name, sender) ==
    IF HasPrefix(name, "/") THEN <<sender, name>> ELSE <<name, StatusNotifierItemPath>>

\* The early return of RegisterStatusNotifierItem.
ItemAlreadyRegistered(name) == Contains(w_items, name)

\* RegisterStatusNotifierHost without its early return.
HostAlreadyRegistered_Never(name) == FALSE

\* The early return of RegisterStatusNotifierHost.
HostAlreadyRegistered(name) == Contains(w_hosts, name)

\* The replies conn.RequestName(name, NameFlagDoNotQueue) can get, by the
\* name's owner; "error" is a failed call.
RequestName(owner) ==
    CASE owner = "" -> {"PrimaryOwner", "error"}
      [] owner = "self" -> {"AlreadyOwner", "error"}
      [] OTHER -> {"Exists", "error"}

\* Every reply of RequestName.
Replies == {"PrimaryOwner", "AlreadyOwner", "Exists", "error"}

\* Watcher.Listen without its check.
WatcherListenIsClosed_Unchecked == FALSE

\* The check Watcher.Listen makes before it touches the bus.
WatcherListenIsClosed == w_closed

\* Watcher.Listen taking any reply but a failed call for the name.
WatcherListenResult_AnyOwner(reply, exportErr) ==
    CASE WatcherListenIsClosed -> "listen: watcher is closed"
      [] ~WatcherListenIsClosed /\ reply = "error" -> "listen: failed to request name"
      [] ~WatcherListenIsClosed /\ reply # "error" /\ exportErr ->
            "listen: failed to export"
      [] OTHER -> ""

\* The error Watcher.Listen returns ("" is nil), by the reply to RequestName
\* and whether conn.Export fails.
WatcherListenResult(reply, exportErr) ==
    CASE WatcherListenIsClosed -> "listen: watcher is closed"
      [] ~WatcherListenIsClosed /\ reply = "error" -> "listen: failed to request name"
      [] ~WatcherListenIsClosed /\ reply \in {"AlreadyOwner", "Exists"} ->
            "listen: name already taken"
      [] ~WatcherListenIsClosed /\ reply = "PrimaryOwner" /\ exportErr ->
            "listen: failed to export"
      [] OTHER -> ""

\* Watcher.Listen
WatcherListen(reply, exportErr) ==
    /\ ~panicked
    /\ UNCHANGED ovars
    /\ UNCHANGED ivars
    /\ w_mu = "free"
    /\ reply \in RequestName(busName)
    /\    LET err == WatcherListenResult(reply, exportErr)
          IN  CASE err = "" ->
                     /\ busName' = "self"
                     /\ w_exported' = TRUE
                     /\ w_subscribed' = TRUE
                     /\ w_consumer' = [pc |-> "idle", name |-> ""]
                     /\ props' = exportProperties(w_items, w_hosts)
                     /\ UNCHANGED <<w_closed, w_hosts, w_items, w_mu, w_arg, w_signals,
                                    w_chan, matches, emitted, vanished, hvars, panicked>>
                [] err = "listen: failed to export" ->
                     /\ busName' = "self"
                     /\ UNCHANGED <<wvars, w_exported, props, matches, emitted, vanished,
                                    hvars, panicked>>
                [] OTHER -> UNCHANGED vars

\* The unique-name components of the identifiers in items.
ItemOwners(items) ==
    [i \in 1..Len(items) |-> uniqueNameAndPathFromItemName(items[i])[1]]

\* One RemoveMatchSignal of the NameOwnerChanged rule per name of the list.
RECURSIVE RemoveNameOwnerChangedRules(_, _)
RemoveNameOwnerChangedRules(rules, names) ==
    IF names = <<>>
    THEN rules
    ELSE RemoveNameOwnerChangedRules(
             RemoveMatchSignal(rules, NameOwnerChangedRule(Head(names))), Tail(names))

\* What the call of Watcher.Close does: "error" (ReleaseName failed, the
\* error is returned), "panic" (close of the closed channel) or "closed".
WatcherCloseResult(releaseErr) ==
    CASE releaseErr -> "error"
      [] ~releaseErr /\ w_chan = "closed" -> "panic"
      [] OTHER -> "closed"

\* Watcher.Close
WatcherClose(releaseErr) ==
    /\ ~panicked
    /\ UNCHANGED ovars
    /\ UNCHANGED ivars
    /\ w_mu = "free"
    /\    IF WatcherCloseResult(releaseErr) = "error"
          THEN UNCHANGED vars
          ELSE /\ busName' = IF busName = "self" THEN "" ELSE busName
               /\ matches' = RemoveNameOwnerChangedRules(
                                 RemoveNameOwnerChangedRules(matches, w_hosts),
                                 ItemOwners(w_items))
               /\ w_subscribed' = FALSE
               /\ IF WatcherCloseResult(releaseErr) = "panic"
                  THEN /\ panicked' = TRUE
                       /\ UNCHANGED <<w_chan, w_closed>>
                  ELSE /\ w_chan' = "closed"
                       /\ w_closed' = TRUE
                       /\ UNCHANGED panicked
               /\ UNCHANGED <<w_hosts, w_items, w_mu, w_arg, w_signals, w_consumer,
                              w_exported, props, emitted, vanished, hvars>>

\* The *dbus.Error RegisterStatusNotifierItem returns ("" is nil), by the
\* outcome of the probe.
RegisterStatusNotifierItemResult(name, probed) ==
    IF ItemAlreadyRegistered(name) \/ probed
    THEN ""
    ELSE "org.freedesktop.DBus.Error.UnknownInterface"

\* RegisterStatusNotifierItem appends: the name is not in items and the probe
\* succeeded.
RegisterStatusNotifierItemAppends(name, probed) ==
    ~ItemAlreadyRegistered(name) /\ probed

\* Watcher.RegisterStatusNotifierItem up to and including the Emit of
\* StatusNotifierItemRegistered; the mutex stays held.
RegisterStatusNotifierItem(name, sender) ==
    /\ ~panicked
    /\ UNCHANGED ovars
    /\ UNCHANGED ivars
    /\ w_mu = "free"
    /\ sender \notin vanished
    /\ LET uniqueName == ResolveItem(name, sender)[1]
           objectPath == ResolveItem(name, sender)[2]
           identifier == uniqueName \o objectPath
           signal == WatcherSignal("StatusNotifierItemRegistered", identifier)
           rules == AddMatchSignal(matches (+) ItemRules(uniqueName),
                                   NameOwnerChangedRule(sender))
       IN  \E probed \in NewItemWithObjectPath(uniqueName, objectPath) :
              IF ~RegisterStatusNotifierItemAppends(name, probed)
              THEN UNCHANGED vars
              ELSE /\ Len(w_items) < MaxItems
                   /\ w_items' = Append(w_items, identifier)
                   /\ matches' = rules
                   /\ emitted' = Emit(emitted, signal)
                   /\ w_signals' = Deliver(w_signals, w_subscribed, rules, signal)
                   /\ h_signals' = Deliver(h_signals, h_subscribed, rules, signal)
                   /\ Len(w_signals') <= MaxChan
                   /\ Len(h_signals') <= MaxChan
                   /\ RulesBounded(matches')
                   /\ EmitBounded(emitted')
                   /\ w_mu' = "RegisterStatusNotifierItem"
                   /\ UNCHANGED <<w_closed, w_hosts, w_arg, w_chan,
                                  w_subscribed, w_consumer, busName, w_exported,
                                  props, vanished, h_closed, h_owned, h_items,
                                  h_callbacks, h_chan, h_subscribed, h_consumer, h_mu, h_arg, h_fired,
                                  panicked>>

\* The rest of Watcher.RegisterStatusNotifierItem: exportProperties, the
\* mutex released.
RegisterStatusNotifierItemReturn ==
    /\ ~panicked
    /\ UNCHANGED ovars
    /\ UNCHANGED ivars
    /\ w_mu = "RegisterStatusNotifierItem"
    /\ props' = exportProperties(w_items, w_hosts)
    /\ w_mu' = "free"
    /\ UNCHANGED <<w_closed, w_hosts, w_items, w_arg, w_signals, w_chan,
                   w_subscribed, w_consumer, busName, w_exported, matches,
                   emitted, vanished, hvars, panicked>>

\* Watcher.RegisterStatusNotifierHost up to and including the Emit of
\* StatusNotifierHostRegistered; the mutex stays held.
RegisterStatusNotifierHost(name) ==
    /\ ~panicked
    /\ UNCHANGED ovars
    /\ UNCHANGED ivars
    /\ w_mu = "free"
    /\ IF HostAlreadyRegistered(name)
       THEN UNCHANGED vars
       ELSE LET signal == WatcherSignal("StatusNotifierHostRegistered", name)
            IN  /\ w_hosts' = Append(w_hosts, name)
                /\ emitted' = Emit(emitted, signal)
                /\ w_signals' = Deliver(w_signals, w_subscribed, matches, signal)
                /\ h_signals' = Deliver(h_signals, h_subscribed, matches, signal)
                /\ Len(w_signals') <= MaxChan
                /\ Len(h_signals') <= MaxChan
                /\ RulesBounded(AddMatchSignal(matches, NameOwnerChangedRule(name)))
                /\ EmitBounded(emitted')
                /\ w_mu' = "RegisterStatusNotifierHost"
                /\ w_arg' = name
                /\ UNCHANGED <<w_closed, w_items, w_chan, w_subscribed, w_consumer,
                               busName, w_exported, props, matches, vanished,
                               h_closed, h_owned, h_items, h_callbacks, h_chan,
                               h_subscribed, h_consumer, h_mu, h_arg, h_fired, panicked>>

\* The rest of Watcher.RegisterStatusNotifierHost: exportProperties, the
\* NameOwnerChanged rule for the host's name, the mutex released.
RegisterStatusNotifierHostReturn ==
    /\ ~panicked
    /\ UNCHANGED ovars
    /\ UNCHANGED ivars
    /\ w_mu = "RegisterStatusNotifierHost"
    /\ props' = exportProperties(w_items, w_hosts)
    /\ matches' = AddMatchSignal(matches, NameOwnerChangedRule(w_arg))
    /\ w_mu' = "free"
    /\ w_arg' = ""
    /\ UNCHANGED <<w_closed, w_hosts, w_items, w_signals, w_chan, w_subscribed,
                   w_consumer, busName, w_exported, emitted, vanished, hvars,
                   panicked>>

\* The name NewHost gives the Host.
HostName == "org.kde.StatusNotifierHost-" \o HostId

\* Watcher.RegisterHost
RegisterHost == RegisterStatusNotifierHost(HostName)

\* The name arguments of RegisterStatusNotifierHost that come over the bus.
HostNameInputs == {HostName, ":1.1"}

\* The index (1-based) tryUnregisterHost finds for name: the last host equal
\* to it, 0 when there is none or the name is empty.
HostIndex(hosts, name) ==
    LET hits == {i \in 1..Len(hosts) : hosts[i] = name}
    IN  IF hits = {} \/ name = "" THEN 0 ELSE Max(hits)

\* The index (1-based) tryUnregisterItem finds for name: the first item that
\* has name as a string prefix, 0 when there is none.
ItemIndex(items, name) ==
    LET hits == {i \in 1..Len(items) : HasPrefix(items[i], name)}
    IN  IF hits = {} THEN 0 ELSE Min(hits)

\* The filter of the Watcher's consumer: the signal asks for unregistration.
IsNameLost(signal) ==
    /\ signal.Interface \o "." \o signal.Member = "org.freedesktop.DBus.NameOwnerChanged"
    /\ Len(signal.Body) >= 3
    /\ signal.Body[3] = ""

\* The consumer of Watcher.subscribe takes the next signal and, for a
\* NameOwnerChanged with an empty new owner, runs tryUnregisterHost.
WatcherConsume ==
    /\ ~panicked
    /\ UNCHANGED ovars
    /\ UNCHANGED ivars
    /\ w_mu = "free"
    /\ w_consumer.pc = "idle"
    /\ w_signals # <<>>
    /\ w_signals' = Tail(w_signals)
    /\ LET signal == Head(w_signals)
           name == signal.Body[1]
           idx == HostIndex(w_hosts, name)
       IN  IF ~IsNameLost(signal)
           THEN UNCHANGED <<w_hosts, w_consumer, props, matches>>
           ELSE /\ w_consumer' = [pc |-> "item", name |-> name]
                /\ IF idx = 0
                   THEN UNCHANGED <<w_hosts, props, matches>>
                   ELSE /\ matches' = RemoveMatchSignal(matches, NameOwnerChangedRule(name))
                        /\ w_hosts' = RemoveAt(w_hosts, idx)
                        /\ props' = exportProperties(w_items, w_hosts')
    /\ UNCHANGED <<w_closed, w_items, w_mu, w_arg, w_chan, w_subscribed, busName,
                   w_exported, emitted, vanished, hvars, panicked>>

\* The consumer runs tryUnregisterItem for the name it took.
WatcherConsumeItem ==
    /\ ~panicked
    /\ UNCHANGED ovars
    /\ UNCHANGED ivars
    /\ w_mu = "free"
    /\ w_consumer.pc = "item"
    /\ w_consumer' = [pc |-> "idle", name |-> ""]
    /\ LET name == w_consumer.name
           idx == ItemIndex(w_items, name)
           signal == WatcherSignal("StatusNotifierItemUnregistered", w_items[idx])
           rules == RemoveMatchSignal(matches, NameOwnerChangedRule(name))
       IN  IF idx = 0
           THEN UNCHANGED <<w_items, w_signals, props, matches, emitted, h_signals>>
           ELSE /\ matches' = rules
                /\ w_items' = RemoveAt(w_items, idx)
                /\ emitted' = Emit(emitted, signal)
                /\ w_signals' = Deliver(w_signals, w_subscribed, rules, signal)
                /\ h_signals' = Deliver(h_signals, h_subscribed, rules, signal)
                /\ Len(w_signals') <= MaxChan
                /\ Len(h_signals') <= MaxChan
                /\ EmitBounded(emitted')
                /\ props' = exportProperties(w_items', w_hosts)
    /\ UNCHANGED <<w_closed, w_hosts, w_mu, w_arg, w_chan, w_subscribed, busName,
                   w_exported, vanished, h_closed, h_owned, h_items, h_callbacks,
                   h_chan, h_subscribed, h_consumer, h_mu, h_arg, h_fired, panicked>>

\* The consumer's range loop ends once the channel is closed and drained.
WatcherConsumerExit ==
    /\ ~panicked
    /\ UNCHANGED ovars
    /\ UNCHANGED ivars
    /\ w_consumer.pc = "idle"
    /\ w_chan = "closed"
    /\ w_signals = <<>>
    /\ w_consumer' = [pc |-> "done", name |-> ""]
    /\ UNCHANGED <<w_closed, w_hosts, w_items, w_mu, w_arg, w_signals, w_chan,
                   w_subscribed, busvars, hvars, panicked>>

\* ------------------------------------------------------------ the Host

\* The two rules Host.subscribe adds and Host.Close removes.
HostRule(member) ==
    [interface |-> StatusNotifierWatcherInterface, sender |-> AnyValue,
     member |-> member, arg0 |-> AnyValue]

\* The check Host.Listen makes before it touches the bus.
HostListenIsClosed == h_closed

\* Who answers a call to org.kde.StatusNotifierWatcher: this process's
\* Watcher ("self"), another process ("other") or nobody ("").
WatcherService ==
    CASE busName = "self" /\ w_exported -> "self"
      [] busName = "other" -> "other"
      [] OTHER -> ""

\* Host.Listen going on after a failed call of RegisterStatusNotifierHost.
HostListenResult_CallUnchecked(reply, callErr, addErr) ==
    CASE HostListenIsClosed -> "listen: host is closed"
      [] ~HostListenIsClosed /\ reply = "error" -> "listen: failed to request name"
      [] ~HostListenIsClosed /\ reply \in {"AlreadyOwner", "Exists"} ->
            "listen: name already taken"
      [] ~HostListenIsClosed /\ reply = "PrimaryOwner" /\ addErr # 0 ->
            "listen: add match failed"
      [] OTHER -> ""

\* The error Host.Listen returns ("" is nil), by the reply to RequestName and
\* by which of the later bus calls fail.
HostListenResult(reply, callErr, addErr) ==
    CASE HostListenIsClosed -> "listen: host is closed"
      [] ~HostListenIsClosed /\ reply = "error" -> "listen: failed to request name"
      [] ~HostListenIsClosed /\ reply \in {"AlreadyOwner", "Exists"} ->
            "listen: name already taken"
      [] ~HostListenIsClosed /\ reply = "PrimaryOwner"
            /\ (callErr \/ WatcherService = "") -> "listen: failed to register host"
      [] ~HostListenIsClosed /\ reply = "PrimaryOwner"
            /\ ~(callErr \/ WatcherService = "") /\ addErr # 0 -> "listen: add match failed"
      [] OTHER -> ""

\* The identifiers Host.getInitialItems reads from the watcher's
\* RegisteredStatusNotifierItems property (none when the read fails).
RegisteredItemsProperty(published) ==
    IF WatcherService = "self" /\ published # <<>>
    THEN published[1].RegisteredStatusNotifierItems
    ELSE <<>>

\* Host.isRegistered
isRegistered(items, uniqueName) == \E it \in items : it.uniqueName = uniqueName

\* h.items[uniqueName] = item
PutItem(items, uniqueName, objectPath) ==
    {it \in items : it.uniqueName # uniqueName}
        \cup {[uniqueName |-> uniqueName, objectPath |-> objectPath, closed |-> FALSE]}

\* The loop of Host.getInitialItems ending at the first identifier whose
\* Item cannot be built.
RECURSIVE getInitialItems_StopsAtFailure(_, _, _, _)
getInitialItems_StopsAtFailure(items, identifiers, i, built) ==
    IF i > Len(identifiers)
    THEN items
    ELSE LET uniqueName == uniqueNameAndPathFromItemName(identifiers[i])[1]
             objectPath == uniqueNameAndPathFromItemName(identifiers[i])[2]
         IN  IF isRegistered(items, uniqueName)
             THEN getInitialItems_StopsAtFailure(items, identifiers, i + 1, built)
             ELSE IF i \notin built
                  THEN items
                  ELSE getInitialItems_StopsAtFailure(
                           PutItem(items, uniqueName, objectPath),
                           identifiers, i + 1, built)

\* The loop of Host.getInitialItems over the identifiers from position i on;
\* built holds the positions whose NewItemWithObjectPath succeeds.
RECURSIVE getInitialItems(_, _, _, _)
getInitialItems(items, identifiers, i, built) ==
    IF i > Len(identifiers)
    THEN items
    ELSE LET uniqueName == uniqueNameAndPathFromItemName(identifiers[i])[1]
             objectPath == uniqueNameAndPathFromItemName(identifiers[i])[2]
         IN  IF isRegistered(items, uniqueName) \/ i \notin built
             THEN getInitialItems(items, identifiers, i + 1, built)
             ELSE getInitialItems(PutItem(items, uniqueName, objectPath),
                                  identifiers, i + 1, built)

\* The rules of the Items a map holds that another map does not.
RECURSIVE NewItemRules(_)
NewItemRules(added) ==
    IF added = {}
    THEN EmptyBag
    ELSE LET it == CHOOSE x \in added : TRUE
         IN  ItemRules(it.uniqueName) (+) NewItemRules(added \ {it})

\* h.onRegistered(item) and h.onUnregistered(item): one more invocation of
\* the callback for the Item of that unique name.
Fire(fired, callback, uniqueName) ==
    fired (+) SetToBag({[callback |-> callback, uniqueName |-> uniqueName]})

\* The invocations of onRegistered the loop of getInitialItems makes: one per
\* Item it puts into the map.
FireInitialItems(fired, added) ==
    fired (+) SetToBag({[callback |-> "onRegistered", uniqueName |-> it.uniqueName] :
                           it \in added})

\* The positions of identifiers whose NewItemWithObjectPath succeeds, by the
\* positions whose call fails in transport.
Built(identifiers, probeErrs) ==
    {i \in 1..Len(identifiers) :
        /\ i \notin probeErrs
        /\ TRUE \in NewItemWithObjectPath(
               uniqueNameAndPathFromItemName(identifiers[i])[1],
               uniqueNameAndPathFromItemName(identifiers[i])[2])}

\* Host.Listen through its call of RegisterStatusNotifierHost; when this
\* process's Watcher answers the call, that method runs to its end before
\* Listen goes on. Host.mu stays held when the call succeeded.
HostListen(reply, callErr) ==
    /\ ~panicked
    /\ UNCHANGED ovars
    /\ UNCHANGED ivars
    /\ h_mu = "free"
    /\ WatcherService = "self" => w_mu = "free"
    /\ reply \in RequestName(IF h_owned THEN "self" ELSE "")
    /\    LET err == HostListenResult(reply, callErr, 0)
              acquired == NameOwnerChanged(HostName, "", ConnName)
              registers == WatcherService = "self" /\ ~HostAlreadyRegistered(HostName)
              hosts1 == IF registers THEN Append(w_hosts, HostName) ELSE w_hosts
              rules1 == IF registers
                        THEN AddMatchSignal(matches, NameOwnerChangedRule(HostName))
                        ELSE matches
              wsig0 == Deliver(w_signals, w_subscribed, matches, acquired)
          IN  CASE err \in {"listen: host is closed", "listen: failed to request name",
                            "listen: name already taken"} ->
                     UNCHANGED vars
                [] err = "listen: failed to register host" ->
                     /\ h_owned' = TRUE
                     /\ w_signals' = wsig0
                     /\ Len(w_signals') <= MaxChan
                     /\ UNCHANGED <<w_closed, w_hosts, w_items, w_mu, w_arg, w_chan,
                                    w_subscribed, w_consumer, busvars, h_closed,
                                    h_items, h_callbacks, h_signals, h_chan,
                                    h_subscribed, h_consumer, h_mu, h_arg, h_fired,
                                    panicked>>
                [] OTHER ->
                     /\ h_owned' = TRUE
                     /\ h_mu' = "Listen"
                     /\ w_hosts' = hosts1
                     /\ emitted' = IF registers
                                   THEN Emit(emitted, WatcherSignal("StatusNotifierHostRegistered", HostName))
                                   ELSE emitted
                     /\ w_signals' = wsig0
                     /\ Len(w_signals') <= MaxChan
                     /\ EmitBounded(emitted')
                     /\ matches' = rules1
                     /\ RulesBounded(matches')
                     /\ props' = IF registers
                                 THEN exportProperties(w_items, hosts1)
                                 ELSE props
                     /\ UNCHANGED <<w_closed, w_items, w_mu, w_arg, w_chan, w_subscribed,
                                    w_consumer, busName, w_exported, vanished, h_closed,
                                    h_items, h_callbacks, h_signals, h_chan,
                                    h_subscribed, h_consumer, h_arg, h_fired, panicked>>

\* Host.Listen at h.subscribe(): addErr is the AddMatchSignal that fails, 0
\* for none. A failure ends Listen; otherwise the channel is registered, the
\* consumer started and Listen goes on to getInitialItems with Host.mu held.
HostListenSubscribe(addErr) ==
    /\ ~panicked
    /\ UNCHANGED ovars
    /\ UNCHANGED ivars
    /\ h_mu = "Listen"
    /\ IF addErr # 0
       THEN /\ matches' = IF addErr = 1
                          THEN matches
                          ELSE AddMatchSignal(matches, HostRule("StatusNotifierItemRegistered"))
            /\ h_mu' = "free"
            /\ UNCHANGED <<h_subscribed, h_consumer>>
       ELSE /\ matches' = AddMatchSignal(
                              AddMatchSignal(matches, HostRule("StatusNotifierItemRegistered")),
                              HostRule("StatusNotifierItemUnregistered"))
            /\ h_subscribed' = TRUE
            /\ h_consumer' = "running"
            /\ h_mu' = "getInitialItems"
    /\ RulesBounded(matches')
    /\ UNCHANGED <<wvars, busName, w_exported, props, emitted, vanished, h_closed,
                   h_owned, h_items, h_callbacks, h_signals, h_chan, h_arg, h_fired,
                   panicked>>

\* The end of Host.Listen: Host.getInitialItems reads the Watcher's property
\* and builds an Item for every identifier whose unique name is not in the
\* map; probeErrs are the positions whose NewItemWithObjectPath fails in
\* transport. Host.mu is released.
HostGetInitialItems(probeErrs) ==
    /\ ~panicked
    /\ UNCHANGED ovars
    /\ UNCHANGED ivars
    /\ h_mu = "getInitialItems"
    /\ h_mu' = "free"
    /\ LET identifiers == RegisteredItemsProperty(props)
           snapshot == getInitialItems(h_items, identifiers, 1,
                                       Built(identifiers, probeErrs))
       IN  /\ probeErrs \subseteq 1..Len(identifiers)
           /\ h_items' = snapshot
           /\ h_fired' = FireInitialItems(h_fired, snapshot \ h_items)
           /\ matches' = matches (+) NewItemRules(snapshot \ h_items)
    /\ RulesBounded(matches')
    /\ UNCHANGED <<wvars, busName, w_exported, props, emitted, vanished, h_closed,
                   h_owned, h_callbacks, h_signals, h_chan, h_subscribed, h_consumer,
                   h_arg, panicked>>

\* What the call of Host.Close does: "release" (ReleaseName failed), "rule1"
\* or "rule2" (that RemoveMatchSignal failed; the daemon refuses a rule it
\* does not hold), "panic" (a closed channel closed again) or "closed". The
\* first three return the error.
HostCloseResult(releaseErr, removeErr) ==
    CASE releaseErr -> "release"
      [] ~releaseErr /\ (removeErr = 1
            \/ CopiesIn(HostRule("StatusNotifierItemRegistered"), matches) = 0) -> "rule1"
      [] ~releaseErr /\ ~(removeErr = 1
            \/ CopiesIn(HostRule("StatusNotifierItemRegistered"), matches) = 0)
            /\ (removeErr = 2
            \/ CopiesIn(HostRule("StatusNotifierItemUnregistered"), matches) = 0) -> "rule2"
      [] ~releaseErr /\ removeErr = 0
            /\ CopiesIn(HostRule("StatusNotifierItemRegistered"), matches) > 0
            /\ CopiesIn(HostRule("StatusNotifierItemUnregistered"), matches) > 0
            /\ (h_chan = "closed" \/ \E it \in h_items : it.closed) -> "panic"
      [] OTHER -> "closed"

\* Item.close on every Item of the map: its rules removed, its channel closed.
RECURSIVE CloseItemRules(_, _)
CloseItemRules(rules, items) ==
    IF items = {}
    THEN rules
    ELSE LET it == CHOOSE x \in items : TRUE
         IN  CloseItemRules(rules (-) ItemRules(it.uniqueName), items \ {it})

\* Host.Close
HostClose(releaseErr, removeErr) ==
    /\ ~panicked
    /\ UNCHANGED ovars
    /\ UNCHANGED ivars
    /\ h_mu = "free"
    /\    LET result == HostCloseResult(releaseErr, removeErr)
              released == NameOwnerChanged(HostName, ConnName, "")
              rules1 == RemoveMatchSignal(matches, HostRule("StatusNotifierItemRegistered"))
              rules2 == RemoveMatchSignal(rules1, HostRule("StatusNotifierItemUnregistered"))
          IN  IF result = "release"
              THEN UNCHANGED vars
              ELSE /\ h_owned' = FALSE
                   /\ w_signals' = IF h_owned
                                   THEN Deliver(w_signals, w_subscribed, matches, released)
                                   ELSE w_signals
                   /\ h_signals' = IF h_owned
                                   THEN Deliver(h_signals, h_subscribed, matches, released)
                                   ELSE h_signals
                   /\ Len(w_signals') <= MaxChan
                   /\ Len(h_signals') <= MaxChan
                   /\ CASE result = "rule1" ->
                             UNCHANGED <<matches, h_subscribed, h_chan, h_items,
                                         h_callbacks, h_closed, panicked>>
                        [] result = "rule2" ->
                             /\ matches' = rules1
                             /\ UNCHANGED <<h_subscribed, h_chan, h_items, h_callbacks,
                                            h_closed, panicked>>
                        [] result = "panic" ->
                             /\ matches' = IF h_chan = "closed"
                                           THEN rules2
                                           ELSE CloseItemRules(rules2, h_items)
                             /\ h_subscribed' = FALSE
                             /\ h_chan' = "closed"
                             /\ panicked' = TRUE
                             /\ UNCHANGED <<h_items, h_callbacks, h_closed>>
                        [] OTHER ->
                             /\ matches' = CloseItemRules(rules2, h_items)
                             /\ h_subscribed' = FALSE
                             /\ h_chan' = "closed"
                             /\ h_items' = {[it EXCEPT !.closed = TRUE] : it \in h_items}
                             /\ h_callbacks' = "nil"
                             /\ h_closed' = TRUE
                             /\ UNCHANGED panicked
                   /\ UNCHANGED <<w_closed, w_hosts, w_items, w_mu, w_arg, w_chan,
                                  w_subscribed, w_consumer, busName, w_exported, props,
                                  emitted, vanished, h_consumer, h_mu, h_arg, h_fired>>

\* The Items Host.Items returns.
HostItemsResult == h_items

\* Host.Items: a copy of the map's values; the Host does not change.
HostItems ==
    /\ ~panicked
    /\ UNCHANGED ovars
    /\ UNCHANGED ivars
    /\ h_mu = "free"
    /\ UNCHANGED vars

\* Item.close on one Item of the map.
CloseItem(items, uniqueName) ==
    {IF it.uniqueName = uniqueName THEN [it EXCEPT !.closed = TRUE] ELSE it :
        it \in items}

\* delete(h.items, uniqueName)
DeleteItem(items, uniqueName) == {it \in items : it.uniqueName # uniqueName}

\* The name of a signal (dbus.Signal.Name).
SignalName(signal) == signal.Interface \o "." \o signal.Member

\* A handler that gives Host.mu back right after its call of onUnregistered.
handleUnregisteredSignalMutex_Released == "free"

\* Who holds Host.mu after the call of onUnregistered: the handler, which
\* locked it at its start and releases it by defer.
handleUnregisteredSignalMutex == "handleUnregisteredSignal"

\* The signals the Host's consumer hands to a handler, which takes Host.mu.
IsHostSignal(signal) ==
    SignalName(signal) \in
        {"org.kde.StatusNotifierWatcher.StatusNotifierItemRegistered",
         "org.kde.StatusNotifierWatcher.StatusNotifierItemUnregistered"}

\* The consumer of Host.subscribe takes the next signal of the channel.
\* Host.handleRegisteredSignal runs whole (probeErr: the probe fails in
\* transport); Host.handleUnregisteredSignal runs through its call of
\* onUnregistered and keeps Host.mu.
HostConsume(probeErr) ==
    /\ ~panicked
    /\ UNCHANGED ovars
    /\ UNCHANGED ivars
    /\ h_consumer = "running"
    /\ h_signals # <<>>
    /\ IsHostSignal(Head(h_signals)) => h_mu = "free"
    /\ h_signals' = Tail(h_signals)
    /\ LET signal == Head(h_signals)
           uniqueName == uniqueNameAndPathFromItemName(signal.Body[1])[1]
           objectPath == uniqueNameAndPathFromItemName(signal.Body[1])[2]
           built == ~probeErr /\ TRUE \in NewItemWithObjectPath(uniqueName, objectPath)
       IN  CASE SignalName(signal) = "org.kde.StatusNotifierWatcher.StatusNotifierItemRegistered"
                   /\ ~isRegistered(h_items, uniqueName) ->
                     IF built
                     THEN /\ h_items' = PutItem(h_items, uniqueName, objectPath)
                          /\ matches' = matches (+) ItemRules(uniqueName)
                          /\ RulesBounded(matches')
                          /\ panicked' = (h_callbacks = "nil")
                          /\ h_fired' = IF h_callbacks = "nil"
                                        THEN h_fired
                                        ELSE Fire(h_fired, "onRegistered", uniqueName)
                          /\ UNCHANGED <<h_consumer, h_mu, h_arg>>
                     ELSE UNCHANGED <<h_items, matches, panicked, h_fired, h_consumer,
                                      h_mu, h_arg>>
             [] SignalName(signal) = "org.kde.StatusNotifierWatcher.StatusNotifierItemUnregistered"
                   /\ isRegistered(h_items, uniqueName) ->
                     IF h_callbacks = "nil"
                     THEN /\ panicked' = TRUE
                          /\ UNCHANGED <<h_items, matches, h_fired, h_consumer, h_mu, h_arg>>
                     ELSE /\ h_fired' = Fire(h_fired, "onUnregistered", uniqueName)
                          /\ h_consumer' = "close"
                          /\ h_mu' = handleUnregisteredSignalMutex
                          /\ h_arg' = uniqueName
                          /\ UNCHANGED <<h_items, matches, panicked>>
             [] OTHER -> UNCHANGED <<h_items, matches, panicked, h_fired, h_consumer,
                                     h_mu, h_arg>>
    /\ UNCHANGED <<wvars, busName, w_exported, props, emitted, vanished, h_closed,
                   h_owned, h_callbacks, h_chan, h_subscribed>>

\* Host.handleUnregisteredSignal after the callback: item.close().
HostUnregisterClose ==
    /\ ~panicked
    /\ UNCHANGED ovars
    /\ UNCHANGED ivars
    /\ h_consumer = "close"
    /\ LET item == CHOOSE it \in h_items : it.uniqueName = h_arg
       IN  /\ matches' = matches (-) ItemRules(h_arg)
           /\ panicked' = item.closed
           /\ h_items' = CloseItem(h_items, h_arg)
    /\ h_consumer' = "delete"
    /\ UNCHANGED <<wvars, busName, w_exported, props, emitted, vanished, h_closed,
                   h_owned, h_callbacks, h_signals, h_chan, h_subscribed, h_mu,
                   h_arg, h_fired>>

\* Host.handleUnregisteredSignal after item.close(): the Item leaves the map,
\* Host.mu is released and the consumer goes back to its channel.
HostUnregisterDelete ==
    /\ ~panicked
    /\ UNCHANGED ovars
    /\ UNCHANGED ivars
    /\ h_consumer = "delete"
    /\ h_items' = DeleteItem(h_items, h_arg)
    /\ h_consumer' = "running"
    /\ h_mu' = "free"
    /\ h_arg' = ""
    /\ UNCHANGED <<wvars, busvars, h_closed, h_owned, h_callbacks, h_signals,
                   h_chan, h_subscribed, h_fired, panicked>>

\* The consumer's range loop ends once the channel is closed and drained.
HostConsumerExit ==
    /\ ~panicked
    /\ UNCHANGED ovars
    /\ UNCHANGED ivars
    /\ h_consumer = "running"
    /\ h_chan = "closed"
    /\ h_signals = <<>>
    /\ h_consumer' = "done"
    /\ UNCHANGED <<wvars, busvars, h_closed, h_owned, h_items, h_callbacks,
                   h_signals, h_chan, h_subscribed, h_mu, h_arg, h_fired, panicked>>

\* ------------------------------------------------------------ the other clients

\* A client leaves the bus: the daemon announces that its unique name lost
\* its owner.
ClientLeaves(name) ==
    /\ ~panicked
    /\ UNCHANGED ovars
    /\ UNCHANGED ivars
    /\ name \notin vanished
    /\ vanished' = vanished \cup {name}
    /\ w_signals' = Deliver(w_signals, w_subscribed, matches, NameOwnerChanged(name, name, ""))
    /\ h_signals' = Deliver(h_signals, h_subscribed, matches, NameOwnerChanged(name, name, ""))
    /\ Len(w_signals') <= MaxChan
    /\ Len(h_signals') <= MaxChan
    /\ UNCHANGED <<w_closed, w_hosts, w_items, w_mu, w_arg, w_chan, w_subscribed,
                   w_consumer, busName, w_exported, props, matches, emitted,
                   h_closed, h_owned, h_items, h_callbacks, h_chan, h_subscribed,
                   h_consumer, h_mu, h_arg, h_fired, panicked>>

\* Another process takes or gives up org.kde.StatusNotifierWatcher.
OtherWatcher ==
    /\ ~panicked
    /\ UNCHANGED ovars
    /\ UNCHANGED ivars
    /\ busName \in {"", "other"}
    /\ busName' = IF busName = "" THEN "other" ELSE ""
    /\ UNCHANGED <<wvars, w_exported, props, matches, emitted, vanished, hvars,
                   panicked>>

\* ------------------------------------------------------------ the Item

\* The client whose default object the Item built on its own stands for.
ItemClient == ":1.1"

\* The exported fields of Item that NewItemWithObjectPath fills.
ItemFields ==
    {"ID", "Category", "WindowID", "IsMenu", "MenuPath", "Title", "Tooltip",
     "Status", "IconName", "IconPixmap", "OverlayIconName", "OverlayIconPixmap",
     "AttentionIconName", "AttentionIconPixmap", "AttentionMovieName"}

\* The properties of org.kde.StatusNotifierItem the Item reads.
ItemProperties ==
    {"Id", "Category", "WindowId", "ItemIsMenu", "Menu", "Title", "ToolTip",
     "Status", "IconName", "IconPixmap", "OverlayIconName", "OverlayIconPixmap",
     "AttentionIconName", "AttentionIconPixmap", "AttentionMovieName"}

\* The reads that fail during one construction or one dispatch: none or one
\* property (GetProperty fails, or the value has not the shape the field
\* needs).
FetchFailures == {{}} \cup {{property} : property \in ItemProperties}

\* What the object's ToolTip property holds: a tuple with a string in third
\* place, a tuple of fewer than three elements, a tuple with something else
\* in third place, or a value that is no tuple.
ToolTipShapes == {"tuple", "short", "untyped", "scalar"}

\* A field nothing was stored in, and what a read of a property stores.
ZeroValue == [property |-> "", version |-> 0]
PropertyValue(property, version) == [property |-> property, version |-> version]

\* object.GetProperty(property) followed by the store into field, skipped
\* when the read fails.
Store(cache, field, property, version, failed) ==
    IF property \in failed
    THEN cache
    ELSE [cache EXCEPT ![field] = PropertyValue(property, version)]

\* Item.updateTitle
updateTitle(cache, version, failed) ==
    Store(cache, "Title", "Title", version, failed)

\* Item.updateTooltip panics in tooltip.Value().([]any) when the value is no
\* tuple.
updateTooltipPanics(failed, shape) == "ToolTip" \notin failed /\ shape = "scalar"

\* Item.updateTooltip: the third element of the tuple, when it is a string.
updateTooltip(cache, version, failed, shape) ==
    IF shape = "tuple"
    THEN Store(cache, "Tooltip", "ToolTip", version, failed)
    ELSE cache

\* Item.updateStatus
updateStatus(cache, version, failed) ==
    Store(cache, "Status", "Status", version, failed)

\* Item.updateIcon
updateIcon(cache, version, failed) ==
    Store(Store(cache, "IconName", "IconName", version, failed),
          "IconPixmap", "IconPixmap", version, failed)

\* Item.updateOverlayIcon
updateOverlayIcon(cache, version, failed) ==
    Store(Store(cache, "OverlayIconName", "OverlayIconName", version, failed),
          "OverlayIconPixmap", "OverlayIconPixmap", version, failed)

\* Item.updateAttentionIcon
updateAttentionIcon(cache, version, failed) ==
    Store(Store(Store(cache, "AttentionIconName", "AttentionIconName", version, failed),
                "AttentionIconPixmap", "AttentionIconPixmap", version, failed),
          "AttentionMovieName", "AttentionMovieName", version, failed)

\* Item.handleSignal: the switch on signal.Name.
handleSignal(cache, name, version, failed, shape) ==
    CASE name = "org.kde.StatusNotifierItem.NewTitle" ->
            updateTitle(cache, version, failed)
      [] name = "org.kde.StatusNotifierItem.NewToolTip" ->
            updateTooltip(cache, version, failed, shape)
      [] name = "org.kde.StatusNotifierItem.NewStatus" ->
            updateStatus(cache, version, failed)
      [] name = "org.kde.StatusNotifierItem.NewIcon" ->
            updateIcon(cache, version, failed)
      [] name = "org.kde.StatusNotifierItem.NewOverlayIcon" ->
            updateOverlayIcon(cache, version, failed)
      [] name = "org.kde.StatusNotifierItem.NewAttentionIcon" ->
            updateAttentionIcon(cache, version, failed)
      [] OTHER -> cache

\* The fields NewItemWithObjectPath fills after the probe: the five it reads
\* itself, then the six update functions.
NewItemFields(version, failed, shape) ==
    LET zero == [f \in ItemFields |-> ZeroValue]
        id == Store(zero, "ID", "Id", version, failed)
        category == Store(id, "Category", "Category", version, failed)
        windowID == Store(category, "WindowID", "WindowId", version, failed)
        isMenu == Store(windowID, "IsMenu", "ItemIsMenu", version, failed)
        menu == Store(isMenu, "MenuPath", "Menu", version, failed)
    IN  updateAttentionIcon(
            updateOverlayIcon(
                updateIcon(
                    updateStatus(
                        updateTooltip(updateTitle(menu, version, failed),
                                      version, failed, shape),
                        version, failed),
                    version, failed),
                version, failed),
            version, failed)

\* A change signal of an item's object.
ItemSignal(member, sender) == Signal(StatusNotifierItemInterface, member, sender, <<>>)

\* NewItemWithObjectPath(conn, ItemClient, StatusNotifierItemPath) with a
\* probe that is answered: the fields are read, the six rules added, the
\* channel registered and the consumer started.
ItemNew(failed, shape) ==
    /\ ~panicked
    /\ UNCHANGED ovars
    /\ i_state = "none"
    /\ TRUE \in NewItemWithObjectPath(ItemClient, StatusNotifierItemPath)
    /\ IF updateTooltipPanics(failed, shape)
       THEN /\ panicked' = TRUE
            /\ UNCHANGED <<i_state, i_cache, i_subscribed, i_consumer, matches>>
       ELSE /\ i_cache' = NewItemFields(r_version, failed, shape)
            /\ matches' = matches (+) ItemRules(ItemClient)
            /\ i_subscribed' = TRUE
            /\ i_consumer' = "running"
            /\ i_state' = "open"
            /\ UNCHANGED panicked
    /\ UNCHANGED <<wvars, busName, w_exported, props, emitted, vanished, hvars,
                   i_signals, i_chan, i_updates, r_version>>

\* The remote object changes the values of its properties.
ItemObjectChanges ==
    /\ ~panicked
    /\ UNCHANGED ovars
    /\ r_version < MaxVersion
    /\ r_version' = r_version + 1
    /\ UNCHANGED <<wvars, busvars, hvars, i_state, i_cache, i_signals, i_chan,
                   i_subscribed, i_consumer, i_updates, panicked>>

\* The remote object emits one of its change signals.
ItemEmits(member) ==
    /\ ~panicked
    /\ UNCHANGED ovars
    /\ ItemClient \notin vanished
    /\ i_signals' = Deliver(i_signals, i_subscribed, matches, ItemSignal(member, ItemClient))
    /\ Len(i_signals') <= MaxItemChan
    /\ UNCHANGED <<wvars, busvars, hvars, i_state, i_cache, i_chan, i_subscribed,
                   i_consumer, i_updates, r_version, panicked>>

\* A consumer that takes the signals of every sender.
SenderIsItem_AnySender(signal, uniqueName) == TRUE

\* The test the consumer makes of a signal: signal.Sender == item.uniqueName.
SenderIsItem(signal, uniqueName) == signal.Sender = uniqueName

\* The connection receives a signal that no rule of the Item asked for (one
\* routed by a rule another component added on the shared connection, or one
\* addressed to the connection) and hands it to every registered channel.
ConnReceives(sender, interface, member) ==
    /\ ~panicked
    /\ UNCHANGED ovars
    /\ i_subscribed
    /\ sender \notin vanished
    /\ i_signals' = Append(i_signals, Signal(interface, member, sender, <<>>))
    /\ Len(i_signals') <= MaxItemChan
    /\ UNCHANGED <<wvars, busvars, hvars, i_state, i_cache, i_chan, i_subscribed,
                   i_consumer, i_updates, r_version, panicked>>

\* The consumer of Item.subscribe takes the next signal of the channel: a
\* signal of another sender is skipped, any other goes to handleSignal.
ItemConsume(failed, shape) ==
    /\ ~panicked
    /\ UNCHANGED ovars
    /\ i_consumer = "running"
    /\ i_signals # <<>>
    /\ i_updates < MaxUpdates
    /\ i_signals' = Tail(i_signals)
    /\ LET signal == Head(i_signals)
       IN  IF ~SenderIsItem(signal, ItemClient)
           THEN UNCHANGED <<i_cache, i_consumer, panicked>>
           ELSE IF /\ SignalName(signal) = "org.kde.StatusNotifierItem.NewToolTip"
                   /\ updateTooltipPanics(failed, shape)
                THEN /\ panicked' = TRUE
                     /\ UNCHANGED <<i_cache, i_consumer>>
                ELSE /\ i_cache' = handleSignal(i_cache, SignalName(signal), r_version,
                                                failed, shape)
                     /\ i_consumer' = "onUpdate"
                     /\ UNCHANGED panicked
    /\ UNCHANGED <<wvars, busvars, hvars, i_state, i_chan, i_subscribed, i_updates,
                   r_version>>

\* The consumer after handleSignal: item.onUpdate().
ItemOnUpdate ==
    /\ ~panicked
    /\ UNCHANGED ovars
    /\ i_consumer = "onUpdate"
    /\ i_updates' = i_updates + 1
    /\ i_consumer' = "running"
    /\ UNCHANGED <<wvars, busvars, hvars, i_state, i_cache, i_signals, i_chan,
                   i_subscribed, r_version, panicked>>

\* Item.close: the six rules removed, the channel taken from the connection
\* and closed; closing it a second time panics.
ItemClose ==
    /\ ~panicked
    /\ UNCHANGED ovars
    /\ i_state \in {"open", "closed"}
    /\ matches' = matches (-) ItemRules(ItemClient)
    /\ i_subscribed' = FALSE
    /\ panicked' = (i_chan = "closed")
    /\ i_chan' = "closed"
    /\ i_state' = "closed"
    /\ UNCHANGED <<wvars, busName, w_exported, props, emitted, vanished, hvars,
                   i_cache, i_signals, i_consumer, i_updates, r_version>>

\* The consumer's range loop ends once the channel is closed and drained.
ItemConsumerExit ==
    /\ ~panicked
    /\ UNCHANGED ovars
    /\ i_consumer = "running"
    /\ i_chan = "closed"
    /\ i_signals = <<>>
    /\ i_consumer' = "done"
    /\ UNCHANGED <<wvars, busvars, hvars, i_state, i_cache, i_signals, i_chan,
                   i_subscribed, i_updates, r_version, panicked>>

\* ------------------------------------------------------------ the IconSet

\* No call was made yet.
NoCall == [type |-> "none"]

\* The values a D-Bus variant can hold, by their Go type.
Int32Value(n) == [type |-> "int32", int |-> n]
BytesValue == [type |-> "[]byte"]
StringValue == [type |-> "string"]

\* The four bytes of an int32 in two's complement, lowest first.
Limbs(n) == [k \in 0..3 |-> (n \div (256 ^ k)) % 256]

\* Byte k of the product of two numbers given by their bytes (long
\* multiplication with carries).
RECURSIVE ProductCarry(_, _, _)
ProductColumn(a, b, k) ==
    LET term(i) == IF k - i \in 0..3 THEN a[i] * b[k - i] ELSE 0
    IN  term(0) + term(1) + term(2) + term(3)
ProductCarry(a, b, k) ==
    IF k = 0 THEN 0
    ELSE (ProductColumn(a, b, k - 1) + ProductCarry(a, b, k - 1)) \div 256
ProductLimb(a, b, k) == (ProductColumn(a, b, k) + ProductCarry(a, b, k)) % 256

\* a * b on the int32 type: the low 32 bits of the product, read as signed.
MulInt32(a, b) ==
    LET limb(k) == ProductLimb(Limbs(a), Limbs(b), k)
    IN  (IF limb(3) >= 128 THEN limb(3) - 256 ELSE limb(3)) * 16777216
            + limb(2) * 65536 + limb(1) * 256 + limb(0)

\* NewIconFromDBusPixmap(pixmap): the pixmap must be three values, an int32
\* width, an int32 height and the bytes.
NewIconFromDBusPixmap(pixmap) ==
    IF /\ Len(pixmap) = 3
       /\ pixmap[1].type = "int32"
       /\ pixmap[2].type = "int32"
       /\ pixmap[3].type = "[]byte"
    THEN [err |-> FALSE,
          icon |-> [Width |-> pixmap[1].int, Height |-> pixmap[2].int]]
    ELSE [err |-> TRUE]

\* The icons of the pixmaps, in their order, those that do not decode skipped.
RECURSIVE IconsOf(_)
IconsOf(pixmaps) ==
    IF pixmaps = <<>> THEN <<>>
    ELSE LET decoded == NewIconFromDBusPixmap(Head(pixmaps))
         IN  (IF decoded.err THEN <<>> ELSE <<decoded.icon>>)
                 \o IconsOf(Tail(pixmaps))

\* The comparison handed to sort.Slice.
IconLess(a, b) == MulInt32(a.Width, a.Height) < MulInt32(b.Width, b.Height)

\* What sort.Slice may leave: the orders of the icons in which no icon is
\* less than one before it (the sort is not stable).
SortSlice(icons) ==
    LET n == Len(icons)
        key == [i \in 1..n |-> MulInt32(icons[i].Width, icons[i].Height)]
        orders == {order \in [1..n -> 1..n] :
                      /\ \A i, j \in 1..n : i # j => order[i] # order[j]
                      /\ \A i, j \in 1..n :
                            i < j => ~(key[order[j]] < key[order[i]])}
    IN  {[i \in 1..n |-> icons[order[i]]] : order \in orders}

\* NewIconSetFromDBusProperty(value): the results the call may return.
NewIconSetFromDBusProperty(value) ==
    IF value.type # "[][]any"
    THEN {[err |-> TRUE, icons |-> <<>>]}
    ELSE {[err |-> FALSE, icons |-> icons] : icons \in SortSlice(IconsOf(value.pixmaps))}

NoIcon == [nil |-> TRUE]
GetAll(iconset) == iconset.icons
GetSmallest(iconset) ==
    IF Len(iconset.icons) = 0 THEN NoIcon ELSE iconset.icons[1]
GetLargest(iconset) ==
    IF Len(iconset.icons) = 0 THEN NoIcon ELSE iconset.icons[Len(iconset.icons)]

\* The pixmaps of the properties handed to the decoder: icons of common
\* sizes, two of one area, two whose area does not fit an int32, and the
\* four ways a pixmap can be malformed.
IconSizes == {<<16, 16>>, <<32, 16>>, <<16, 32>>, <<46341, 46341>>, <<65536, 65536>>}
Pixmaps ==
    {<<Int32Value(size[1]), Int32Value(size[2]), BytesValue>> : size \in IconSizes}
        \cup {<<Int32Value(16), Int32Value(16)>>,
              <<StringValue, Int32Value(16), BytesValue>>,
              <<Int32Value(16), StringValue, BytesValue>>,
              <<Int32Value(16), Int32Value(16), StringValue>>}
IconProperties ==
    {StringValue}
        \cup {[type |-> "[][]any", pixmaps |-> pixmaps] :
                 pixmaps \in UNION {[1..n -> Pixmaps] : n \in 0..MaxPixmaps}}

\* A caller decodes the property it holds.
IconSetFromProperty ==
    /\ p_value # NoCall
    /\ p_iconset = NoCall
    /\ p_iconset' \in NewIconSetFromDBusProperty(p_value)
    /\ UNCHANGED <<wvars, busvars, hvars, ivars, panicked, p_value, l_reply,
                   l_result, gvars, mvars>>

\* ------------------------------------------------------------ the menu layout

\* A dbus.Variant holding a value, and the Go values of a layout reply.
Variant(value) == [variant |-> value]
Uint32Value(n) == [type |-> "uint32", uint |-> n]
TupleValue(elems) == [type |-> "[]any", elems |-> elems]
PropsValue(properties) == [type |-> "map[string]dbus.Variant", props |-> properties]
ChildrenValue(children) == [type |-> "[]dbus.Variant", children |-> children]

\* No *LayoutNode.
NoNode == [nil |-> TRUE]

RECURSIVE NewLayoutNode(_)
RECURSIVE NewLayoutNode_FailsWithChild(_)
RECURSIVE LayoutChildren(_)

\* The nodes of the children that decode, in their order.
LayoutChildren(children) ==
    IF children = <<>> THEN <<>>
    ELSE LET child == NewLayoutNode(Head(children).variant)
         IN  (IF child.err THEN <<>> ELSE <<child.node>>)
                 \o LayoutChildren(Tail(children))

\* A decoder that fails on a node one of whose children does not decode.
NewLayoutNode_FailsWithChild(data) ==
    IF \/ data.type # "[]any"
       \/ Len(data.elems) # 3
       \/ data.elems[1].type # "int32"
       \/ data.elems[2].type # "map[string]dbus.Variant"
       \/ data.elems[3].type # "[]dbus.Variant"
       \/ \E i \in 1..Len(data.elems[3].children) :
             NewLayoutNode(data.elems[3].children[i].variant).err
    THEN [err |-> TRUE]
    ELSE [err |-> FALSE,
          node |-> [ID |-> data.elems[1].int,
                    Properties |-> [key \in DOMAIN data.elems[2].props |->
                                       data.elems[2].props[key].variant],
                    Children |-> LayoutChildren(data.elems[3].children)]]

\* NewLayoutNode(data).
NewLayoutNode(data) ==
    IF data.type # "[]any" \/ Len(data.elems) # 3
    THEN [err |-> TRUE]
    ELSE IF data.elems[1].type # "int32"
    THEN [err |-> TRUE]
    ELSE IF data.elems[2].type # "map[string]dbus.Variant"
    THEN [err |-> TRUE]
    ELSE IF data.elems[3].type # "[]dbus.Variant"
    THEN [err |-> TRUE]
    ELSE [err |-> FALSE,
          node |-> [ID |-> data.elems[1].int,
                    Properties |-> [key \in DOMAIN data.elems[2].props |->
                                       data.elems[2].props[key].variant],
                    Children |-> LayoutChildren(data.elems[3].children)]]

\* Menu.GetLayout, from the reply to its call.
GetLayout(reply) ==
    IF reply.err
    THEN [revision |-> 0, menu |-> NoNode, err |-> TRUE]
    ELSE IF Len(reply.body) # 2
    THEN [revision |-> 0, menu |-> NoNode, err |-> TRUE]
    ELSE IF reply.body[1].type # "uint32"
    THEN [revision |-> 0, menu |-> NoNode, err |-> TRUE]
    ELSE LET revision == reply.body[1].uint
             decoded == NewLayoutNode(reply.body[2])
         IN  IF decoded.err
             THEN [revision |-> revision, menu |-> NoNode, err |-> TRUE]
             ELSE [revision |-> revision, menu |-> decoded.node, err |-> FALSE]

\* The id and the properties of the nodes of the replies.
NodeHeads ==
    {<<Int32Value(1), PropsValue([label |-> Variant("Open")])>>,
     <<Int32Value(2), PropsValue([label |-> Variant("Quit")])>>}

\* The values of at most n nodes a reply can hold: nodes with children,
\* nodes whose id is not an int32 (with children), and leaves that are no
\* tuple, too short a tuple, or of a wrong properties or children type.
RECURSIVE LayoutValues(_)
RECURSIVE LayoutForests(_)
LayoutForests(n) ==
    {<<>>} \cup UNION {{<<Variant(value)>> \o forest :
                           value \in LayoutValues(k),
                           forest \in LayoutForests(n - k)} : k \in 1..n}
LayoutValues(n) ==
    {StringValue,
     TupleValue(<<Int32Value(3), PropsValue([label |-> Variant("Short")])>>),
     TupleValue(<<Int32Value(3), StringValue, ChildrenValue(<<>>)>>),
     TupleValue(<<Int32Value(3), PropsValue([label |-> Variant("Leaf")]),
                  StringValue>>)}
        \cup {TupleValue(<<head[1], head[2], ChildrenValue(forest)>>) :
                 head \in NodeHeads, forest \in LayoutForests(n - 1)}
        \cup {TupleValue(<<StringValue, PropsValue([label |-> Variant("NoID")]),
                           ChildrenValue(forest)>>) :
                 forest \in LayoutForests(n - 1)}

\* The replies to the GetLayout call.
LayoutReplies ==
    {[err |-> TRUE, body |-> <<>>],
     [err |-> FALSE, body |-> <<Uint32Value(1)>>]}
        \cup {[err |-> FALSE, body |-> <<StringValue, value>>] :
                 value \in LayoutValues(1)}
        \cup {[err |-> FALSE, body |-> <<Uint32Value(revision), value>>] :
                 revision \in 1..MaxRevision, value \in LayoutValues(MaxNodes)}

\* Menu.GetLayout returns on the reply to its call.
MenuGetLayout ==
    /\ l_reply # NoCall
    /\ l_result = NoCall
    /\ l_result' = GetLayout(l_reply)
    /\ UNCHANGED <<wvars, busvars, hvars, ivars, panicked, p_value, p_iconset,
                   l_reply, gvars, mvars>>

\* ------------------------------------------------------------ the Menu

\* The properties NewMenu reads after its probe, each of which may fail.
MenuProperties == {"Version", "Status"}

\* NewMenu(conn, name, path): the object is probed for its Version; then
\* Version and Status are read, a failed read leaving the zero value.
NewMenu(probeErr, failed) ==
    IF probeErr
    THEN [err |-> TRUE]
    ELSE [err |-> FALSE,
          menu |-> [Version |-> IF "Version" \in failed THEN 0 ELSE 3,
                    Status |-> IF "Status" \in failed THEN "" ELSE "normal"]]

\* Item.Menu(): NewMenu for the item's unique name and its MenuPath.
ItemMenu(probeErr, failed) ==
    /\ ~panicked
    /\ i_state # "none"
    /\ LET built == NewMenu(probeErr \/ ItemClient \in vanished, failed)
       IN  IF built.err
           THEN UNCHANGED mvars
           ELSE /\ m_state' = "open"
                /\ m_menu' = built.menu
    /\ UNCHANGED <<wvars, busvars, hvars, ivars, panicked, fvars, gvars>>

\* ------------------------------------------------------------ identifiers

\* The strings of at most n characters of an alphabet.
RECURSIVE StringsOver(_, _)
StringsOver(alphabet, n) ==
    IF n = 0 THEN {""}
    ELSE StringsOver(alphabet, n - 1)
             \cup {c \o t : c \in alphabet, t \in StringsOver(alphabet, n - 1)}

\* The unique names (no slash in them) and the object paths (a slash first, or
\* none at all: "") the identifiers are built from.
IdentifierParts ==
    {[uniqueName |-> u, objectPath |-> path] :
        u \in StringsOver({":", "1"}, MaxNameLen),
        path \in {""} \cup {"/" \o t : t \in StringsOver({"/", "a"}, MaxPathLen)}}

\* The identifier is built as RegisterStatusNotifierItem builds it and parsed
\* as the Host parses it.
ParseIdentifier ==
    /\ n_parts # NoCall
    /\ n_result = NoCall
    /\ LET identifier == n_parts.uniqueName \o n_parts.objectPath
           parsed == uniqueNameAndPathFromItemName(identifier)
       IN  n_result' = [uniqueName |-> parsed[1], objectPath |-> parsed[2]]
    /\ UNCHANGED <<wvars, busvars, hvars, ivars, panicked, fvars, n_parts, t_node,
                   t_state, mvars>>

\* ------------------------------------------------------------ the toggle state

LayoutNodeToggleStateIndeterminate == -1
LayoutNodeToggleStateOff == 0
LayoutNodeToggleStateOn == 1

\* Integer values of the other Go types a property can hold.
IntValue(n) == [type |-> "int", int |-> n]
Int64Value(n) == [type |-> "int64", int |-> n]

\* A node that accepts only the int32 form.
ToggleState_Int32Only(node) ==
    IF "toggle-state" \notin DOMAIN node.Properties
    THEN LayoutNodeToggleStateIndeterminate
    ELSE LET value == node.Properties["toggle-state"]
         IN  IF value.type = "int32" /\ value.int = 0
             THEN LayoutNodeToggleStateOff
             ELSE IF value.type = "int32" /\ value.int = 1
             THEN LayoutNodeToggleStateOn
             ELSE LayoutNodeToggleStateIndeterminate

\* LayoutNode.ToggleState: the switch on node.Properties["toggle-state"], nil
\* for an absent key; a case matches a value of the same type and number.
ToggleState(node) ==
    IF "toggle-state" \notin DOMAIN node.Properties
    THEN LayoutNodeToggleStateIndeterminate
    ELSE LET value == node.Properties["toggle-state"]
         IN  IF value.type \in {"int", "int32"} /\ value.int = 0
             THEN LayoutNodeToggleStateOff
             ELSE IF value.type \in {"int", "int32"} /\ value.int = 1
             THEN LayoutNodeToggleStateOn
             ELSE LayoutNodeToggleStateIndeterminate

\* The values of a toggle-state property, and the nodes asked: with or
\* without that property, beside a label and a toggle type.
ToggleValues ==
    {Int32Value(n) : n \in -1..MaxToggle}
        \cup {IntValue(n) : n \in -1..MaxToggle}
        \cup {Int64Value(n) : n \in -1..MaxToggle}
        \cup {Uint32Value(n) : n \in 0..MaxToggle}
        \cup {StringValue, BytesValue, [type |-> "bool"]}
ToggleNodes ==
    {[ID |-> 1, Properties |-> properties, Children |-> <<>>] :
        properties \in
            UNION {[keys -> ToggleValues] :
                      keys \in {{"label"}, {"label", "toggle-state"},
                                {"toggle-type", "toggle-state"}}}}

\* A caller asks the toggle state of the node it holds.
LayoutNodeToggleState ==
    /\ t_node # NoCall
    /\ t_state = NoCall
    /\ t_state' = [type |-> "LayoutNodeToggleState", state |-> ToggleState(t_node)]
    /\ UNCHANGED <<wvars, busvars, hvars, ivars, panicked, fvars, n_parts, n_result,
                   t_node, mvars>>

\* ------------------------------------------------------------ the specification

\* The components after construction.
ProgramInit ==
    /\ w_closed = FALSE
    /\ w_hosts = <<>>
    /\ w_items = <<>>
    /\ w_mu = "free"
    /\ w_arg = ""
    /\ w_signals = <<>>
    /\ w_chan = "open"
    /\ w_subscribed = FALSE
    /\ w_consumer = [pc |-> "none", name |-> ""]
    /\ busName = ""
    /\ w_exported = FALSE
    /\ props = <<>>
    /\ matches = EmptyBag
    /\ emitted = EmptyBag
    /\ vanished = {}
    /\ h_closed = FALSE
    /\ h_owned = FALSE
    /\ h_items = {}
    /\ h_callbacks = "set"
    /\ h_signals = <<>>
    /\ h_chan = "open"
    /\ h_subscribed = FALSE
    /\ h_consumer = "none"
    /\ h_mu = "free"
    /\ h_arg = ""
    /\ h_fired = EmptyBag
    /\ i_state = "none"
    /\ i_cache = [f \in ItemFields |-> ZeroValue]
    /\ i_signals = <<>>
    /\ i_chan = "open"
    /\ i_subscribed = FALSE
    /\ i_consumer = "none"
    /\ i_updates = 0
    /\ r_version = 1
    /\ panicked = FALSE
    /\ m_state = "none"
    /\ m_menu = [Version |-> 0, Status |-> ""]

Init ==
    /\ ProgramInit
    /\ p_value = NoCall
    /\ p_iconset = NoCall
    /\ l_reply = NoCall
    /\ l_result = NoCall
    /\ n_parts = NoCall
    /\ n_result = NoCall
    /\ t_node = NoCall
    /\ t_state = NoCall

\* The Watcher, its consumer and the clients of the bus; the embedder's Host
\* is not started.
Next ==
    \/ \E reply \in Replies, exportErr \in BOOLEAN : WatcherListen(reply, exportErr)
    \/ \E releaseErr \in BOOLEAN : WatcherClose(releaseErr)
    \/ \E name \in ItemNameInputs, sender \in UniqueNames :
          RegisterStatusNotifierItem(name, sender)
    \/ RegisterStatusNotifierItemReturn
    \/ \E name \in HostNameInputs : RegisterStatusNotifierHost(name)
    \/ RegisterStatusNotifierHostReturn
    \/ RegisterHost
    \/ WatcherConsume
    \/ WatcherConsumeItem
    \/ WatcherConsumerExit
    \/ \E name \in UniqueNames : ClientLeaves(name)
    \/ OtherWatcher

Spec == Init /\ [][Next]_vars

\* The one client of the specification with the Host: it registers its
\* default object by its bus name and a second object by path.
SystemClient == ":1.1"
SystemItemNames == {SystemClient, "/a"}

\* The Watcher and the Host on one connection, with one client; no bus call
\* fails in transport.
SystemNext ==
    \/ \E reply \in Replies \ {"error"} : WatcherListen(reply, FALSE)
    \/ WatcherClose(FALSE)
    \/ \E name \in SystemItemNames : RegisterStatusNotifierItem(name, SystemClient)
    \/ RegisterStatusNotifierItemReturn
    \/ RegisterStatusNotifierHostReturn
    \/ RegisterHost
    \/ WatcherConsume
    \/ WatcherConsumeItem
    \/ WatcherConsumerExit
    \/ \E reply \in Replies \ {"error"} : HostListen(reply, FALSE)
    \/ HostListenSubscribe(0)
    \/ HostGetInitialItems({})
    \/ HostClose(FALSE, 0)
    \/ HostItems
    \/ HostConsume(FALSE)
    \/ HostUnregisterClose
    \/ HostUnregisterDelete
    \/ HostConsumerExit
    \/ ClientLeaves(SystemClient)
    \/ OtherWatcher

SystemSpec == Init /\ [][SystemNext]_vars

\* The Host beside a Watcher that is not closed, with one client; the bus
\* calls of Host.Listen and the probes may fail in transport.
HostNext ==
    \/ \E reply \in Replies \ {"error"} : WatcherListen(reply, FALSE)
    \/ \E name \in SystemItemNames : RegisterStatusNotifierItem(name, SystemClient)
    \/ RegisterStatusNotifierItemReturn
    \/ WatcherConsume
    \/ WatcherConsumeItem
    \/ \E reply \in Replies, callErr \in BOOLEAN : HostListen(reply, callErr)
    \/ \E addErr \in 0..2 : HostListenSubscribe(addErr)
    \/ \E probeErrs \in SUBSET (1..MaxItems) : HostGetInitialItems(probeErrs)
    \/ HostClose(FALSE, 0)
    \/ HostItems
    \/ \E probeErr \in BOOLEAN : HostConsume(probeErr)
    \/ HostUnregisterClose
    \/ HostUnregisterDelete
    \/ HostConsumerExit
    \/ ClientLeaves(SystemClient)

HostSpec == Init /\ [][HostNext]_vars

\* An Item built on its own for the object of one client, which changes its
\* properties and emits its change signals; single reads may fail.
ItemNext ==
    \/ \E failed \in FetchFailures, shape \in ToolTipShapes : ItemNew(failed, shape)
    \/ ItemObjectChanges
    \/ \E member \in ItemSignalMembers : ItemEmits(member)
    \/ \E failed \in FetchFailures, shape \in ToolTipShapes : ItemConsume(failed, shape)
    \/ ItemOnUpdate
    \/ ItemClose
    \/ ItemConsumerExit

ItemSpec == Init /\ [][ItemNext]_vars

\* A property value is decoded into an IconSet.
IconInit ==
    /\ ProgramInit
    /\ p_value \in IconProperties
    /\ p_iconset = NoCall
    /\ l_reply = NoCall
    /\ l_result = NoCall
    /\ n_parts = NoCall
    /\ n_result = NoCall
    /\ t_node = NoCall
    /\ t_state = NoCall

IconNext == IconSetFromProperty

IconSpec == IconInit /\ [][IconNext]_vars

\* A reply to GetLayout is decoded into a tree.
LayoutInit ==
    /\ ProgramInit
    /\ p_value = NoCall
    /\ p_iconset = NoCall
    /\ l_reply \in LayoutReplies
    /\ l_result = NoCall
    /\ n_parts = NoCall
    /\ n_result = NoCall
    /\ t_node = NoCall
    /\ t_state = NoCall

LayoutNext == MenuGetLayout

LayoutSpec == LayoutInit /\ [][LayoutNext]_vars

\* A standalone Item whose reads succeed, and the Menu built for it.
MenuNext ==
    \/ ItemNew({}, "tuple")
    \/ ItemObjectChanges
    \/ \E member \in ItemSignalMembers : ItemEmits(member)
    \/ ItemConsume({}, "tuple")
    \/ ItemOnUpdate
    \/ ItemClose
    \/ ItemConsumerExit
    \/ \E probeErr \in BOOLEAN, failed \in SUBSET MenuProperties :
          ItemMenu(probeErr, failed)

MenuSpec == Init /\ [][MenuNext]_vars

\* The other client of the shared connection, and the signals the connection
\* receives beside those the Item's rules ask for.
OtherClient == ":1.10"
ReceivedSignals ==
    {<<sender, StatusNotifierItemInterface, member>> :
        sender \in {OtherClient}, member \in {"NewTitle", "NewIcon"}}
        \cup {<<sender, StatusNotifierWatcherInterface, "StatusNotifierItemRegistered">> :
                 sender \in {ItemClient, OtherClient}}
        \cup {<<ItemClient, MenuInterface, "LayoutUpdated">>}

\* A standalone Item whose reads succeed, on a connection that receives
\* signals of other senders and of other names.
SharedNext ==
    \/ ItemNew({}, "tuple")
    \/ ItemObjectChanges
    \/ \E member \in ItemSignalMembers : ItemEmits(member)
    \/ \E received \in ReceivedSignals :
          ConnReceives(received[1], received[2], received[3])
    \/ ItemConsume({}, "tuple")
    \/ ItemOnUpdate
    \/ ItemClose
    \/ ItemConsumerExit

SharedSpec == Init /\ [][SharedNext]_vars

\* An identifier is built from its parts and parsed.
IdentifierInit ==
    /\ ProgramInit
    /\ p_value = NoCall
    /\ p_iconset = NoCall
    /\ l_reply = NoCall
    /\ l_result = NoCall
    /\ n_parts \in IdentifierParts
    /\ n_result = NoCall
    /\ t_node = NoCall
    /\ t_state = NoCall

IdentifierNext == ParseIdentifier

IdentifierSpec == IdentifierInit /\ [][IdentifierNext]_vars

\* The toggle state of a node is asked.
ToggleInit ==
    /\ ProgramInit
    /\ p_value = NoCall
    /\ p_iconset = NoCall
    /\ l_reply = NoCall
    /\ l_result = NoCall
    /\ n_parts = NoCall
    /\ n_result = NoCall
    /\ t_node \in ToggleNodes
    /\ t_state = NoCall

ToggleNext == LayoutNodeToggleState

ToggleSpec == ToggleInit /\ [][ToggleNext]_vars

\* The Watcher under fair scheduling: its consumer goroutine and the methods
\* in progress are not held back for ever. Registrations come over the bus,
\* from connected clients, once Listen has exported the Watcher and started
\* its consumer.
LiveNext ==
    \/ \E reply \in Replies, exportErr \in BOOLEAN : WatcherListen(reply, exportErr)
    \/ \E releaseErr \in BOOLEAN : WatcherClose(releaseErr)
    \/ \E name \in ItemNameInputs, sender \in UniqueNames :
          w_subscribed /\ RegisterStatusNotifierItem(name, sender)
    \/ RegisterStatusNotifierItemReturn
    \/ \E name \in HostNameInputs :
          w_subscribed /\ name \notin vanished /\ RegisterStatusNotifierHost(name)
    \/ RegisterStatusNotifierHostReturn
    \/ WatcherConsume
    \/ WatcherConsumeItem
    \/ WatcherConsumerExit
    \/ \E name \in UniqueNames : ClientLeaves(name)
    \/ OtherWatcher

LiveSpec ==
    /\ Init
    /\ [][LiveNext]_vars
    /\ WF_vars(WatcherConsume)
    /\ WF_vars(WatcherConsumeItem)
    /\ WF_vars(RegisterStatusNotifierItemReturn)
    /\ WF_vars(RegisterStatusNotifierHostReturn)

\* ------------------------------------------------------------ the claims

\* C1: a RegisterStatusNotifierItem call whose name and sender resolve to a
\* canonical identifier that items already holds returns success without
\* emitting: the bag of emitted signals does not change, so one identifier
\* gets one StatusNotifierItemRegistered.
C1_OneSignalPerIdentifier ==
    [][\A name \in ItemNameInputs, sender \in UniqueNames :
          (/\ Contains(w_items, ResolveItem(name, sender)[1] \o ResolveItem(name, sender)[2])
           /\ RegisterStatusNotifierItem(name, sender))
          => emitted' = emitted]_vars

\* C2: whenever no handler is in progress, the exported
\* RegisteredStatusNotifierItems property equals items and holds no
\* identifier twice.
C2_ExportedItemsDistinct ==
    (w_mu = "free" /\ props # <<>>) =>
        /\ props[1].RegisteredStatusNotifierItems = w_items
        /\ \A i, j \in 1..Len(w_items) : i # j => w_items[i] # w_items[j]

\* C3: at every instant at which the properties can be read, also the one
\* just after StatusNotifierHostRegistered went out, the exported
\* IsStatusNotifierHostRegistered is true exactly when hosts is not empty.
C3_HostFlagTracksHosts ==
    props # <<>> => (props[1].IsStatusNotifierHostRegistered <=> Len(w_hosts) > 0)

\* C4: when the consumer runs tryUnregisterItem for a lost name that is the
\* unique-name component of a registered item, afterwards no identifier of
\* that name is in items, each such identifier got one more
\* StatusNotifierItemUnregistered, the properties are republished, and no
\* NameOwnerChanged rule with arg0 = name remains.
C4_ItemCrashDispatch ==
    [][(/\ WatcherConsumeItem
        /\ \E i \in 1..Len(w_items) : ItemOwners(w_items)[i] = w_consumer.name)
       => LET name == w_consumer.name
              unregistered(id) == WatcherSignal("StatusNotifierItemUnregistered", id)
          IN  /\ \A i \in 1..Len(w_items') : ItemOwners(w_items')[i] # name
              /\ \A i \in 1..Len(w_items) :
                    ItemOwners(w_items)[i] = name =>
                        CopiesIn(unregistered(w_items[i]), emitted')
                            = CopiesIn(unregistered(w_items[i]), emitted) + 1
              /\ props' = exportProperties(w_items', w_hosts')
              /\ CopiesIn(NameOwnerChangedRule(name), matches') = 0]_vars

\* C5: RegisterStatusNotifierItem probes before it appends. A call that
\* changes anything is one whose resolved object answered the probe, and it
\* appends that object's identifier; a call for a name not in items whose
\* probe fails returns UnknownInterface; items never holds an identifier of
\* an object that does not implement org.kde.StatusNotifierItem.
C5_ProbeBeforeAppend ==
    /\ [](\A i \in 1..Len(w_items) :
             \E obj \in SniObjects : w_items[i] = obj[1] \o obj[2])
    /\ [](\A name \in ItemNameInputs :
             ~ItemAlreadyRegistered(name) =>
                 RegisterStatusNotifierItemResult(name, FALSE)
                     = "org.freedesktop.DBus.Error.UnknownInterface")
    /\ [][\A name \in ItemNameInputs, sender \in UniqueNames :
             RegisterStatusNotifierItem(name, sender) =>
                 /\ Answers(ResolveItem(name, sender)[1], ResolveItem(name, sender)[2])
                 /\ w_items' = Append(w_items, ResolveItem(name, sender)[1]
                                                   \o ResolveItem(name, sender)[2])]_vars

\* An item is registered while a registration of the default object of
\* ":1.1", which has left the bus, would fail its probe.
C5_Witness ==
    /\ Len(w_items) > 0
    /\ ":1.1" \in vanished
    /\ ":1.10" \notin vanished
    /\ ~ItemAlreadyRegistered(":1.1")
    /\ NewItemWithObjectPath(":1.1", StatusNotifierItemPath) = {FALSE}

\* C6: a RegisterStatusNotifierItem(name, sender) call that registers stores
\* and emits sender + name when name starts with "/", and
\* name + "/StatusNotifierItem" otherwise.
C6_Canonicalisation ==
    [][\A name \in ItemNameInputs, sender \in UniqueNames :
          RegisterStatusNotifierItem(name, sender) =>
              LET identifier == IF SubSeq(name, 1, 1) = "/"
                                THEN sender \o name
                                ELSE name \o "/StatusNotifierItem"
              IN  /\ w_items' = Append(w_items, identifier)
                  /\ emitted' = emitted (+) SetToBag({WatcherSignal(
                                    "StatusNotifierItemRegistered", identifier)})]_vars

\* Both modes have registered: ":1.1" its object "/a" by path, ":1.10" its
\* default object by bus name.
C6_Witness ==
    /\ Contains(w_items, ":1.1/a")
    /\ Contains(w_items, ":1.10/StatusNotifierItem")
    /\ CopiesIn(WatcherSignal("StatusNotifierItemRegistered", ":1.1/a"), emitted) = 1

\* C7: RegisterStatusNotifierHost is idempotent per name. hosts never holds
\* a name twice; a call that changes anything is for a name not in hosts,
\* appends it and emits one StatusNotifierHostRegistered(name); the rest of
\* the call adds one NameOwnerChanged rule with arg0 = name.
C7_HostRegisteredOnce ==
    /\ [](\A i, j \in 1..Len(w_hosts) : i # j => w_hosts[i] # w_hosts[j])
    /\ [][\A name \in HostNameInputs :
             RegisterStatusNotifierHost(name) =>
                 /\ ~Contains(w_hosts, name)
                 /\ w_hosts' = Append(w_hosts, name)
                 /\ emitted' = emitted (+) SetToBag({WatcherSignal(
                                   "StatusNotifierHostRegistered", name)})]_vars
    /\ [][RegisterStatusNotifierHostReturn =>
             /\ Contains(w_hosts, w_arg)
             /\ matches' = matches (+) SetToBag({NameOwnerChangedRule(w_arg)})]_vars

\* Both hosts are registered, each announced once and each with its rule,
\* and a further call for either returns at the check.
C7_Witness ==
    /\ w_mu = "free"
    /\ Len(w_hosts) = 2
    /\ \A name \in HostNameInputs :
          /\ HostAlreadyRegistered(name)
          /\ CopiesIn(WatcherSignal("StatusNotifierHostRegistered", name), emitted) = 1
          /\ CopiesIn(NameOwnerChangedRule(name), matches) >= 1

\* C8: the dispatch of a lost name. tryUnregisterHost removes the host entry
\* of that name when there is one and nothing otherwise, and emits nothing;
\* tryUnregisterItem removes one item owned by that name and emits one
\* StatusNotifierItemUnregistered for it when there is one, and changes
\* neither items nor the emitted signals otherwise; the consumer goes on.
C8_NameLostDispatch ==
    [][/\ (WatcherConsume /\ IsNameLost(Head(w_signals))) =>
              LET name == Head(w_signals).Body[1]
              IN  /\ emitted' = emitted
                  /\ w_items' = w_items
                  /\ w_consumer'.pc = "item"
                  /\ IF Contains(w_hosts, name)
                     THEN \E i \in 1..Len(w_hosts) :
                             w_hosts[i] = name /\ w_hosts' = RemoveAt(w_hosts, i)
                     ELSE w_hosts' = w_hosts
       /\ WatcherConsumeItem =>
              LET name == w_consumer.name
                  owned == {i \in 1..Len(w_items) : ItemOwners(w_items)[i] = name}
              IN  /\ w_hosts' = w_hosts
                  /\ w_consumer'.pc = "idle"
                  /\ IF owned = {}
                     THEN w_items' = w_items /\ emitted' = emitted
                     ELSE \E i \in owned :
                             /\ w_items' = RemoveAt(w_items, i)
                             /\ emitted' = emitted (+) SetToBag({WatcherSignal(
                                    "StatusNotifierItemUnregistered", w_items[i])})]_vars

\* C9: after a successful Close every public operation of the component
\* changes no state: no step of Listen, Close, RegisterStatusNotifierItem,
\* RegisterStatusNotifierHost or RegisterHost on a closed Watcher, and none of
\* Listen, Close or Items on a closed Host, changes a variable.
C9_ClosedRejectsAll ==
    [][/\ (/\ w_closed
           /\ \/ \E reply \in Replies : WatcherListen(reply, FALSE)
              \/ WatcherClose(FALSE)
              \/ \E name \in SystemItemNames : RegisterStatusNotifierItem(name, SystemClient)
              \/ RegisterStatusNotifierHost(HostName)
              \/ RegisterHost)
          => UNCHANGED vars
       /\ (/\ h_closed
           /\ \/ \E reply \in Replies : HostListen(reply, FALSE)
              \/ HostClose(FALSE, 0)
              \/ HostItems)
          => UNCHANGED vars]_vars

\* C10: closed is terminal. A closed Watcher stays closed, does not own
\* org.kde.StatusNotifierWatcher and has no channel registered, and its
\* Listen returns the closed error whatever the bus would reply and changes
\* nothing; the same for a closed Host and its name.
C10_ClosedIsTerminal ==
    /\ [](w_closed =>
             /\ busName # "self"
             /\ ~w_subscribed
             /\ \A reply \in Replies, exportErr \in BOOLEAN :
                   WatcherListenResult(reply, exportErr) = "listen: watcher is closed")
    /\ [](h_closed =>
             /\ ~h_owned
             /\ ~h_subscribed
             /\ \A reply \in Replies, callErr \in BOOLEAN, addErr \in 0..2 :
                   HostListenResult(reply, callErr, addErr) = "listen: host is closed")
    /\ [][(w_closed => w_closed') /\ (h_closed => h_closed')]_vars
    /\ [][(w_closed /\ \E reply \in Replies : WatcherListen(reply, FALSE))
             => UNCHANGED vars]_vars
    /\ [][(h_closed /\ \E reply \in Replies : HostListen(reply, FALSE))
             => UNCHANGED vars]_vars

\* The Watcher and the Host have both listened and both been closed.
C10_Witness ==
    /\ w_closed
    /\ h_closed
    /\ w_exported
    /\ w_consumer.pc # "none"
    /\ h_consumer # "none"

\* C11: a Close of a closed Watcher returns normally: it does not panic and
\* leaves the bus name, the match rules and the Watcher as they were.
C11_CloseIdempotent ==
    [][(w_closed /\ \E releaseErr \in BOOLEAN : WatcherClose(releaseErr))
          => (~panicked' /\ UNCHANGED <<wvars, busName, matches>>)]_vars

\* C12: Watcher.Listen fails unless RequestName replies primary owner. Every
\* other reply gives an error; a Listen that changes anything got primary
\* owner for a name nobody owned; the object is exported, the channel
\* registered and the consumer started by such a Listen only.
C12_ListenNeedsPrimaryOwner ==
    /\ [](\A reply \in Replies \ {"PrimaryOwner"}, exportErr \in BOOLEAN :
             WatcherListenResult(reply, exportErr) # "")
    /\ [][\A reply \in Replies, exportErr \in BOOLEAN :
             WatcherListen(reply, exportErr) =>
                 (reply = "PrimaryOwner" /\ busName = "" /\ busName' = "self")]_vars
    /\ [][(\/ w_exported' # w_exported
           \/ w_subscribed' /\ ~w_subscribed
           \/ w_consumer.pc = "none" /\ w_consumer'.pc # "none")
          => (busName = "" /\ \E exportErr \in BOOLEAN :
                 WatcherListen("PrimaryOwner", exportErr))]_vars

\* The Watcher listens; a further Listen gets the reply already owner.
C12_Witness ==
    /\ ~w_closed
    /\ busName = "self"
    /\ w_exported
    /\ w_consumer.pc = "idle"
    /\ props # <<>>
    /\ "AlreadyOwner" \in RequestName(busName)

\* C13: every step fires onRegistered once for a unique name that enters
\* the Host's map and not at all otherwise: for a unique name already in the
\* map no callback fires and its Item is not replaced, and no step ends in a
\* panic of the handler.
C13_OneProxyPerUniqueName ==
    [][\A u \in UniqueNames :
          LET tracked(items) == \E it \in items : it.uniqueName = u
              registered(fired) ==
                  CopiesIn([callback |-> "onRegistered", uniqueName |-> u], fired)
              n == registered(h_fired') - registered(h_fired)
          IN  /\ tracked(h_items) =>
                    /\ n = 0
                    /\ \A it \in h_items' :
                          it.uniqueName = u =>
                              \E old \in h_items :
                                  /\ old.uniqueName = u
                                  /\ old.objectPath = it.objectPath
              /\ (~tracked(h_items) /\ tracked(h_items')) => n = 1
              /\ ~tracked(h_items') => n = 0]_vars

\* C14: the consumer taking StatusNotifierItemUnregistered for a tracked
\* unique name invokes onUnregistered while the Item is open and in the map,
\* and goes on to close it with Host.mu held.
C14_UnregisterOrder ==
    [][(/\ HostConsume(FALSE)
        /\ SignalName(Head(h_signals))
              = "org.kde.StatusNotifierWatcher.StatusNotifierItemUnregistered"
        /\ \E it \in h_items :
              it.uniqueName = uniqueNameAndPathFromItemName(Head(h_signals).Body[1])[1])
       => LET u == uniqueNameAndPathFromItemName(Head(h_signals).Body[1])[1]
          IN  /\ \E it \in h_items : it.uniqueName = u /\ ~it.closed
              /\ h_fired' = Fire(h_fired, "onUnregistered", u)
              /\ h_items' = h_items
              /\ h_consumer' = "close"
              /\ h_mu' = "handleUnregisteredSignal"
              /\ ~panicked']_vars

\* C15: Host.Listen goes through its steps in order and stops at the first
\* that fails. It acquires the Host's name only as primary owner; it goes on
\* to subscribe exactly when the call of RegisterStatusNotifierHost
\* succeeded, and until then leaves the rules, the consumer and the map
\* alone; a failed AddMatchSignal ends it with no consumer and no snapshot;
\* the snapshot is taken only after the subscription, with both rules held
\* and the consumer started.
C15_ListenStepOrder ==
    /\ [](h_mu \in {"Listen", "getInitialItems"} => (h_owned /\ ~h_closed))
    /\ [](h_mu = "getInitialItems" =>
             /\ h_owned /\ h_subscribed /\ h_consumer = "running"
             /\ CopiesIn(HostRule("StatusNotifierItemRegistered"), matches) >= 1
             /\ CopiesIn(HostRule("StatusNotifierItemUnregistered"), matches) >= 1)
    /\ [][\A reply \in Replies, callErr \in BOOLEAN :
             HostListen(reply, callErr) =>
                 /\ reply = "PrimaryOwner" /\ ~h_closed /\ ~h_owned /\ h_owned'
                 /\ UNCHANGED <<h_subscribed, h_consumer, h_items, h_fired, h_signals>>
                 /\ h_mu' = "Listen" <=> ~(callErr \/ WatcherService = "")
                 /\ h_mu' = "Listen" =>
                        (WatcherService = "self" => Contains(w_hosts', HostName))
                 /\ (callErr \/ WatcherService = "") =>
                        UNCHANGED <<h_mu, w_hosts, matches, emitted, props>>]_vars
    /\ [][h_mu = "Listen" =>
             /\ UNCHANGED <<h_items, h_fired, h_owned>>
             /\ h_mu' \in {"Listen", "free", "getInitialItems"}
             /\ h_mu' = "getInitialItems" <=> (~h_subscribed /\ h_subscribed')
             /\ h_mu' = "free" => UNCHANGED <<h_subscribed, h_consumer>>]_vars
    /\ [][(~h_subscribed /\ h_subscribed') =>
             (h_mu = "Listen" /\ h_consumer' = "running")]_vars
    /\ [][\A addErr \in 1..2 :
             HostListenSubscribe(addErr) =>
                 /\ h_mu' = "free"
                 /\ UNCHANGED <<h_subscribed, h_consumer, h_items, h_fired>>
                 /\ addErr = 1 => matches' = matches]_vars
    /\ [][h_mu' = "getInitialItems" => h_mu \in {"Listen", "getInitialItems"}]_vars

\* Host.Listen has failed at its second AddMatchSignal with items published
\* by the Watcher: the Host owns its name, is registered at the Watcher and
\* holds the first rule, and has no consumer and no Item.
C15_Witness ==
    /\ h_mu = "free"
    /\ h_owned /\ ~h_closed
    /\ Contains(w_hosts, HostName)
    /\ CopiesIn(HostRule("StatusNotifierItemRegistered"), matches) = 1
    /\ CopiesIn(HostRule("StatusNotifierItemUnregistered"), matches) = 0
    /\ ~h_subscribed
    /\ h_consumer = "none"
    /\ RegisteredItemsProperty(props) # <<>>
    /\ h_items = {}

C17_HostMirrorsWatcher ==
    (/\ ~panicked
     /\ ~w_closed /\ WatcherService = "self" /\ w_mu = "free"
     /\ w_consumer.pc = "idle" /\ w_signals = <<>>
     /\ ~h_closed /\ h_subscribed /\ h_mu = "free"
     /\ h_consumer = "running" /\ h_signals = <<>>)
    => /\ \A i \in 1..Len(w_items) :
             LET uniqueName == uniqueNameAndPathFromItemName(w_items[i])[1]
                 objectPath == uniqueNameAndPathFromItemName(w_items[i])[2]
             IN  Answers(uniqueName, objectPath) =>
                     \E it \in h_items : it.uniqueName = uniqueName
       /\ \A it \in h_items :
             \E i \in 1..Len(w_items) :
                 uniqueNameAndPathFromItemName(w_items[i])[1] = it.uniqueName

\* C18: once Host.Close has returned the Host's consumer dispatches nothing:
\* whatever it still takes from the channel reaches no handler, so that no
\* callback is invoked, no Item is built or closed, and the nil callbacks
\* are never called.
C18_CloseEndsConsumer ==
    [][(h_closed /\ \E probeErr \in BOOLEAN : HostConsume(probeErr))
          => /\ ~IsHostSignal(Head(h_signals))
             /\ UNCHANGED <<h_items, h_fired, matches, h_consumer, h_mu>>
             /\ ~panicked']_vars

\* C19: the consumer taking one of the six change signals of the Item's own
\* sender reads the properties listed for that signal and no other: every
\* field outside the signal's list keeps its value, every field in the list
\* keeps its value or takes the object's current one, and the consumer goes
\* on to invoke onUpdate, which it does once, after the fields are stored.
C19_SignalRefetch ==
    [][/\ \A failed \in FetchFailures, shape \in ToolTipShapes :
             (/\ ItemConsume(failed, shape)
              /\ Head(i_signals).Sender = ItemClient
              /\ Head(i_signals).Interface = StatusNotifierItemInterface
              /\ Head(i_signals).Member \in ItemSignalMembers)
             => LET member == Head(i_signals).Member
                    listed ==
                        CASE member = "NewTitle" -> {<<"Title", "Title">>}
                          [] member = "NewToolTip" -> {<<"Tooltip", "ToolTip">>}
                          [] member = "NewStatus" -> {<<"Status", "Status">>}
                          [] member = "NewIcon" ->
                                {<<"IconName", "IconName">>, <<"IconPixmap", "IconPixmap">>}
                          [] member = "NewOverlayIcon" ->
                                {<<"OverlayIconName", "OverlayIconName">>,
                                 <<"OverlayIconPixmap", "OverlayIconPixmap">>}
                          [] member = "NewAttentionIcon" ->
                                {<<"AttentionIconName", "AttentionIconName">>,
                                 <<"AttentionIconPixmap", "AttentionIconPixmap">>,
                                 <<"AttentionMovieName", "AttentionMovieName">>}
                IN  /\ ~panicked'
                    /\ \A f \in ItemFields :
                          \/ i_cache'[f] = i_cache[f]
                          \/ \E fp \in listed :
                                /\ fp[1] = f
                                /\ i_cache'[f] = PropertyValue(fp[2], r_version)
                    /\ \A fp \in listed :
                          (fp[2] \notin failed /\ (member = "NewToolTip" => shape = "tuple"))
                              => i_cache'[fp[1]] = PropertyValue(fp[2], r_version)
                    /\ i_updates' = i_updates
                    /\ i_consumer' = "onUpdate"
       /\ i_updates' # i_updates =>
             /\ i_updates' = i_updates + 1
             /\ i_consumer = "onUpdate" /\ i_consumer' = "running"
             /\ i_cache' = i_cache]_vars

\* C20: once Item.close has returned nothing is dispatched for the Item: no
\* field is read again and onUpdate is not invoked.
C20_NoDispatchAfterClose ==
    [][i_state = "closed" => UNCHANGED <<i_cache, i_updates>>]_vars

\* C21: NewItemWithObjectPath with an answered probe succeeds whatever single
\* read fails afterwards: the Item is built with its six rules added, its
\* channel registered and its consumer started, a field whose read failed
\* holds the zero value and the process does not panic; without an answered
\* probe no Item is built, no rule added and no consumer started.
C21_ConstructionTolerant ==
    [][/\ \A failed \in FetchFailures, shape \in ToolTipShapes :
             ItemNew(failed, shape) =>
                 /\ ~panicked'
                 /\ i_state' = "open"
                 /\ matches' = matches (+) ItemRules(ItemClient)
                 /\ i_subscribed' /\ i_consumer' = "running"
                 /\ \A field \in ItemFields :
                       i_cache'[field] \in
                           {ZeroValue} \cup {PropertyValue(property, r_version) :
                                                property \in ItemProperties \ failed}
       /\ (i_state = "none" /\ i_state' # "none") =>
             TRUE \in NewItemWithObjectPath(ItemClient, StatusNotifierItemPath)]_vars

\* C22: a property of the wrong shape is absorbed: whatever the ToolTip or a
\* pixmap property holds when the Item's consumer takes a signal, the
\* consumer does not panic and goes on, and a field whose value could not
\* be decoded keeps its previous value.
C22_DecodingErrorsAbsorbed ==
    [][\A failed \in FetchFailures, shape \in ToolTipShapes :
          ItemConsume(failed, shape) =>
              /\ ~panicked'
              /\ i_consumer' \in {"running", "onUpdate"}
              /\ shape # "tuple" => i_cache'["Tooltip"] = i_cache["Tooltip"]
              /\ \A property \in failed \cap ItemFields :
                    i_cache'[property] = i_cache[property]]_vars

\* C23: the IconSet NewIconSetFromDBusProperty returns is sorted non-decreasing
\* by the pixel area width*height of its icons, GetSmallest is the first and
\* GetLargest the last icon of GetAll (none for an empty set), and the set
\* holds exactly the well-formed pixmaps of the property.
C23_SortedByPixelArea ==
    (p_iconset # NoCall /\ ~p_iconset.err) =>
        LET all == GetAll(p_iconset)
            wellFormed == IconsOf(p_value.pixmaps)
            Area(icon) ==
                [k \in 0..7 |-> ProductLimb(Limbs(icon.Width), Limbs(icon.Height), k)]
            AreaLeq(x, y) ==
                \/ x = y
                \/ \E k \in 0..7 : x[k] < y[k] /\ \A j \in (k + 1)..7 : x[j] = y[j]
            Count(icons, icon) == Cardinality({i \in 1..Len(icons) : icons[i] = icon})
        IN  /\ \A i, j \in 1..Len(all) :
                  i < j => AreaLeq(Area(all[i]), Area(all[j]))
            /\ GetSmallest(p_iconset) = (IF all = <<>> THEN NoIcon ELSE all[1])
            /\ GetLargest(p_iconset) = (IF all = <<>> THEN NoIcon ELSE all[Len(all)])
            /\ Len(all) = Len(wellFormed)
            /\ \A i \in 1..Len(all) : Count(all, all[i]) = Count(wellFormed, all[i])

\* C24: GetLayout returns the revision of the reply with the tree decoded from
\* it; the decoding fails iff the root is not a tuple of an int32, a map of
\* properties and a list of variants; at every depth the children that are
\* such tuples are kept in their order with their id and properties, and the
\* others are dropped with everything below them.
C24_LayoutDecoded ==
    (l_result # NoCall /\ ~l_reply.err /\ Len(l_reply.body) = 2
        /\ l_reply.body[1].type = "uint32") =>
        LET RECURSIVE Tree(_)
            WellFormed(value) ==
                /\ value.type = "[]any"
                /\ Len(value.elems) = 3
                /\ value.elems[1].type = "int32"
                /\ value.elems[2].type = "map[string]dbus.Variant"
                /\ value.elems[3].type = "[]dbus.Variant"
            Kept(children) ==
                SelectSeq(children, LAMBDA child : WellFormed(child.variant))
            Tree(value) ==
                LET kept == Kept(value.elems[3].children)
                IN  [ID |-> value.elems[1].int,
                     Properties |-> [key \in DOMAIN value.elems[2].props |->
                                        value.elems[2].props[key].variant],
                     Children |-> [i \in 1..Len(kept) |-> Tree(kept[i].variant)]]
            root == l_reply.body[2]
        IN  /\ l_result.revision = l_reply.body[1].uint
            /\ l_result.err <=> ~WellFormed(root)
            /\ WellFormed(root) => l_result.menu = Tree(root)

\* A tree was returned in which a child was dropped with its own children and
\* a later child was kept, below a child of the root.
C24_Witness ==
    /\ l_result # NoCall
    /\ ~l_result.err
    /\ \E i \in 1..Len(l_reply.body[2].elems[3].children) :
          LET child == l_reply.body[2].elems[3].children[i].variant
          IN  /\ NewLayoutNode(child).err = FALSE
              /\ Len(child.elems[3].children) = 2
              /\ NewLayoutNode(child.elems[3].children[1].variant).err
              /\ ~NewLayoutNode(child.elems[3].children[2].variant).err
              /\ Len(l_result.menu.Children[1].Children) = 1

\* C25: once a Menu is built for the item, the connection holds the three
\* match rules of the menu's signals (LayoutUpdated, ItemsPropertiesUpdated,
\* ItemActivationRequested of com.canonical.dbusmenu, sent by the item's
\* unique name), so that the Menu's consumer can dispatch them to
\* onLayoutUpdate, onPropertiesUpdate and onActivate.
C25_MenuSubscribed ==
    m_state = "open" =>
        \A member \in {"LayoutUpdated", "ItemsPropertiesUpdated",
                       "ItemActivationRequested"} :
            CopiesIn([interface |-> MenuInterface, sender |-> ItemClient,
                      member |-> member, arg0 |-> AnyValue], matches) >= 1

\* C26: whenever no Watcher method is in progress and the Watcher is not
\* closed, the connection holds exactly one NameOwnerChanged match rule for
\* the unique name of every identifier in the Watcher's items, and exactly one
\* for every name in its hosts.
C26_OneRulePerRegistrant ==
    (w_mu = "free" /\ ~w_closed) =>
        /\ \A i \in 1..Len(w_items) :
              CopiesIn(NameOwnerChangedRule(
                           uniqueNameAndPathFromItemName(w_items[i])[1]),
                       matches) = 1
        /\ \A i \in 1..Len(w_hosts) :
              CopiesIn(NameOwnerChangedRule(w_hosts[i]), matches) = 1

\* C27: when Watcher.Close returns without error, every match rule added on
\* behalf of the Watcher (its NameOwnerChanged rules and the six rules of
\* each Item it built to probe a registrant) has been removed again, and each
\* RemoveMatchSignal of Close removed a rule that was there.
C27_RulesRemovedByClose ==
    [][(~w_closed /\ w_closed') =>
           /\ matches' = EmptyBag
           /\ BagCardinality(matches) - BagCardinality(matches')
                  = Len(w_hosts) + Len(w_items)]_vars

\* C28: no mutex is held while a bus call is outstanding: the AddMatchSignal
\* calls of Host.Listen and the GetProperty call and probes of its
\* getInitialItems are made with the Host's mutex free.
C28_NoMutexAcrossBusCalls ==
    [][(\/ \E addErr \in 0..2 : HostListenSubscribe(addErr)
        \/ \E probeErrs \in SUBSET (1..MaxItems) : HostGetInitialItems(probeErrs))
           => h_mu = "free"]_vars

\* C29: Host.Close is best-effort: a call on a Host that is not closed, even
\* one in which ReleaseName or the removal of a match rule fails, leaves
\* neither of the Host's rules, the channel closed, every Item of the map
\* closed, the callbacks cleared and the Host marked closed.
C29_CloseBestEffort ==
    [][(HostClose(FALSE, 0) /\ ~h_closed) =>
           /\ CopiesIn(HostRule("StatusNotifierItemRegistered"), matches') = 0
           /\ CopiesIn(HostRule("StatusNotifierItemUnregistered"), matches') = 0
           /\ h_chan' = "closed"
           /\ \A it \in h_items' : it.closed
           /\ h_callbacks' = "nil"
           /\ h_closed']_vars

\* C30: an Item owns its six match rules and its channel, and every Item the
\* Host puts into its map is closed exactly once, by the handler of an
\* unregistered signal or by Host.Close: once the Host is closed its map
\* holds no Item that was not closed.
C30_ItemsClosedWithHost ==
    h_closed => \A it \in h_items : it.closed

\* C31: the Item's consumer ignores a signal whose sender is not the item's
\* unique name, whatever its name: taking it changes no cached field, does not
\* lead to onUpdate and does not panic.
C31_ForeignSenderIgnored ==
    [][\A failed \in FetchFailures, shape \in ToolTipShapes :
          (ItemConsume(failed, shape) /\ Head(i_signals).Sender # ItemClient) =>
              /\ i_cache' = i_cache
              /\ i_consumer' = "running"
              /\ i_updates' = i_updates
              /\ ~panicked']_vars

\* The consumer, which has dispatched before, is about to take a New* signal
\* of another sender while the cache is behind the object.
C31_Witness ==
    /\ i_consumer = "running"
    /\ i_updates >= 1
    /\ i_signals # <<>>
    /\ Head(i_signals).Sender = OtherClient
    /\ Head(i_signals).Interface = StatusNotifierItemInterface
    /\ Head(i_signals).Member = "NewTitle"
    /\ i_cache["Title"].version < r_version

\* C39: the Item invokes onUpdate only for its six change signals: taking a
\* signal of the item's own sender whose name is none of the six reads no
\* property again and does not lead to onUpdate.
C39_OnUpdateOnlyForChangeSignals ==
    [][\A failed \in FetchFailures, shape \in ToolTipShapes :
          (/\ ItemConsume(failed, shape)
           /\ Head(i_signals).Sender = ItemClient
           /\ ~(/\ Head(i_signals).Interface = StatusNotifierItemInterface
                /\ Head(i_signals).Member \in ItemSignalMembers)) =>
              /\ i_cache' = i_cache
              /\ i_consumer' = "running"]_vars

\* C32: the Host's dispatch runs whole under Host.mu: whenever the mutex is
\* free, so that Items, Close or another dispatch can enter, the consumer is
\* not between a callback and the close and delete that follow it, and (on
\* a Host that is not closed) Items returns only Items that are open and for
\* which onRegistered was called once more than onUnregistered.
C32_DispatchUnderMutex ==
    h_mu = "free" =>
        /\ h_consumer \notin {"close", "delete"}
        /\ (~h_closed /\ ~panicked) =>
              \A it \in HostItemsResult :
                  /\ ~it.closed
                  /\ CopiesIn([callback |-> "onRegistered", uniqueName |-> it.uniqueName],
                              h_fired)
                        = CopiesIn([callback |-> "onUnregistered",
                                    uniqueName |-> it.uniqueName], h_fired) + 1

\* The handler of an unregistered signal holds the mutex after onUnregistered
\* and item.close, the Item still in the map.
C32_Witness ==
    /\ h_mu = "handleUnregisteredSignal"
    /\ h_consumer = "delete"
    /\ \E it \in h_items : it.closed
    /\ ~h_closed

\* C33: the identifier built from a unique name without a slash and an object
\* path that begins with a slash parses back into that name and that path
\* (the split is at the first slash, which stays in the path); an identifier
\* without a slash parses into itself and the path /StatusNotifierItem.
C33_IdentifierRoundTrip ==
    n_result # NoCall =>
        /\ (SlashPositions(n_parts.uniqueName) = {} /\ HasPrefix(n_parts.objectPath, "/"))
              => /\ n_result.uniqueName = n_parts.uniqueName
                 /\ n_result.objectPath = n_parts.objectPath
        /\ SlashPositions(n_parts.uniqueName \o n_parts.objectPath) = {}
              => /\ n_result.uniqueName = n_parts.uniqueName \o n_parts.objectPath
                 /\ n_result.objectPath = "/StatusNotifierItem"

\* An identifier whose path holds a second slash was parsed.
C33_Witness ==
    /\ n_result # NoCall
    /\ n_parts.uniqueName = ":1"
    /\ n_parts.objectPath = "/a/"
    /\ n_result.objectPath = "/a/"

\* C35: ToggleState is off for a toggle-state property that is the int32 or
\* the native int 0, on for the int32 or the native int 1, and indeterminate
\* for every other value, -1 and an absent property among them.
C35_ToggleState ==
    t_state # NoCall =>
        LET properties == t_node.Properties
            present == "toggle-state" \in DOMAIN properties
            value == properties["toggle-state"]
            IsInt(n) == present /\ value \in {Int32Value(n), IntValue(n)}
        IN  /\ IsInt(0) => t_state.state = LayoutNodeToggleStateOff
            /\ IsInt(1) => t_state.state = LayoutNodeToggleStateOn
            /\ ~(IsInt(0) \/ IsInt(1)) =>
                  t_state.state = LayoutNodeToggleStateIndeterminate

\* The toggle state of a node whose property is the native int 1 was asked.
C35_Witness ==
    /\ t_state # NoCall
    /\ "toggle-state" \in DOMAIN t_node.Properties
    /\ t_node.Properties["toggle-state"] = IntValue(1)
    /\ t_state.state = LayoutNodeToggleStateOn

\* C34: under fair scheduling, an identifier of the Watcher's items whose
\* unique name has left the bus is eventually removed from the items, and a
\* name of its hosts that has left the bus eventually from the hosts (unless
\* the Watcher is closed or the process has ended first).
C34_VanishedEventuallyUnregistered ==
    \A name \in UniqueNames :
        /\ (/\ name \in vanished
            /\ \E i \in 1..Len(w_items) :
                  uniqueNameAndPathFromItemName(w_items[i])[1] = name)
              ~> (\/ \A i \in 1..Len(w_items) :
                        uniqueNameAndPathFromItemName(w_items[i])[1] # name
                  \/ w_closed
                  \/ panicked)
        /\ (name \in vanished /\ Contains(w_hosts, name))
              ~> (~Contains(w_hosts, name) \/ w_closed \/ panicked)

\* C36: tryUnregisterItem removes only an identifier whose unique-name
\* component is exactly the lost name. An identifier of another unique name,
\* also one that has the lost name as a proper string prefix, is in items as
\* often afterwards as before, and no StatusNotifierItemUnregistered is
\* emitted for it.
C36_OnlyExactNameUnregistered ==
    [][WatcherConsumeItem =>
          \A i \in 1..Len(w_items) :
              ItemOwners(w_items)[i] # w_consumer.name =>
                  LET id == w_items[i]
                      unregistered == WatcherSignal("StatusNotifierItemUnregistered", id)
                  IN  /\ Cardinality({j \in 1..Len(w_items') : w_items'[j] = id})
                            = Cardinality({j \in 1..Len(w_items) : w_items[j] = id})
                      /\ CopiesIn(unregistered, emitted')
                            = CopiesIn(unregistered, emitted)]_vars

\* C37: when the lost name owns several registered items (one sender, several
\* object paths), the one dispatch of its NameOwnerChanged leaves no
\* identifier of that name in items, emits one more
\* StatusNotifierItemUnregistered for each of them, and leaves no
\* NameOwnerChanged rule with arg0 = name.
C37_AllItemsOfNameUnregistered ==
    [][(/\ WatcherConsumeItem
        /\ Cardinality({w_items[i] : i \in {j \in 1..Len(w_items) :
                           ItemOwners(w_items)[j] = w_consumer.name}}) >= 2
        /\ CopiesIn(NameOwnerChangedRule(w_consumer.name), matches) >= 2)
       => LET name == w_consumer.name
              owned == {w_items[i] : i \in {j \in 1..Len(w_items) :
                                               ItemOwners(w_items)[j] = name}}
          IN  /\ \A i \in 1..Len(w_items') : ItemOwners(w_items')[i] # name
              /\ \A id \in owned :
                    CopiesIn(WatcherSignal("StatusNotifierItemUnregistered", id), emitted')
                        > CopiesIn(WatcherSignal("StatusNotifierItemUnregistered", id), emitted)
              /\ CopiesIn(NameOwnerChangedRule(name), matches') = 0]_vars

\* C38: Host.Items never returns a closed Item. Whenever Items can run (the
\* Host's mutex is free), also after Host.Close, every Item of the snapshot
\* it returns still has its subscriptions and an open channel.
C38_ItemsNeverClosed ==
    h_mu = "free" => \A it \in HostItemsResult : ~it.closed

\* C40: a Host.Listen that fails after it acquired the host name (the call of
\* RegisterStatusNotifierHost failed, or the first or the second
\* AddMatchSignal of subscribe failed) leaves no residue: on return the host
\* name is released, the call has left neither of the two watcher-signal
\* rules installed, and it has started no consumer.
C40_FailedListenLeavesNoResidue ==
    [][(/\ \/ \E reply \in Replies, callErr \in BOOLEAN : HostListen(reply, callErr)
           \/ \E addErr \in 0..2 : HostListenSubscribe(addErr)
        /\ h_mu' = "free")
       => /\ ~h_owned'
          /\ \A member \in {"StatusNotifierItemRegistered",
                            "StatusNotifierItemUnregistered"} :
                CopiesIn(HostRule(member), matches')
                    <= CopiesIn(HostRule(member), matches)
          /\ h_consumer' = h_consumer]_vars

====
